---- MODULE Spec2Model ----
(***************************************************************************)
(* State-machine model of wingbeat_lidar.digitizer.Digitizer: a session    *)
(* object that drives one Gage digitizer through the PyGage driver.        *)
(* Every driver call of a method is one step of that method (pc holds the  *)
(* method's position); the driver's answers are inputs.                    *)
(*                                                                         *)
(* Encoding of Python values:                                              *)
(*   None is <<>>, a value v that may be None is <<v>>;                    *)
(*   a TOML value that is a string or an integer is a record               *)
(*   [isStr, s, i].                                                        *)
(***************************************************************************)
EXTENDS Integers, Sequences, FiniteSets, TLC

\* ------------------------------------------------------------ bounds
\* Handles the driver hands out on a successful claim are 1..MaxHandle.
MaxHandle == 2
\* GetStatus calls kept in the call log of one capture (later busy
\* answers overwrite the last kept one; the loop itself is not bounded).
MaxPollLog == 2
\* segment_count of the larger example configuration.
MaxSegments == 2

\* ------------------------------------------------------------ Python values
None == <<>>
Some(v) == <<v>>
Val(o) == o[1]

Str(x) == [isStr |-> TRUE, s |-> x, i |-> 0]
Num(n) == [isStr |-> FALSE, s |-> "", i |-> n]

\* bool(x) of an int-or-None: None and 0 are falsy.
Truthy(o) == o # None /\ Val(o) # 0

\* ------------------------------------------------------------ driver constants
CS_SUCCESS == 1
CS_ERROR == -1
ACQ_STATUS_READY == 0
ACQ_STATUS_BUSY == 1
CS_MODE_SINGLE == 1
CS_MODE_DUAL == 2
CS_MODE_QUAD == 4
CS_MODE_OCT == 8
CS_TRIG_SOURCE_EXT == -1
CS_TRIG_COND_POS_SLOPE == 1
CS_TRIG_COND_NEG_SLOPE == 0
trigger_engine == 1

Sessions == {"s1", "s2"}
Handles == 1..MaxHandle
Channels == {1, 2}
TriggerEngines == {1, 2}

VARIABLES
  digitizer_handle,   \* [s] self._digitizer_handle: None or an int
  system_info,        \* [s] self.system_info: None or GetSystemInfo's answer
  acquisition_config, \* [s] None or an AcquisitionConfig
  channel_config,     \* [s] None or a ChannelConfig
  trigger_config,     \* [s] None or a TriggerConfig
  pc,                 \* [s] position inside the running method, or "idle"
  op,                 \* [s] the running method, or the last one that ran
  outcome,            \* [s] how the last method ended, and its warnings
  calls,              \* [s] the driver calls of the running/last method
  status,             \* [s] capture()'s local variable status
  segment,            \* [s] _transfer_data_from_adc()'s loop variable
  counts,             \* [s] _transfer_timestamps()'s local variable counts
  data_matrix,        \* [s] _transfer_data_from_adc()'s local matrix data: its columns
  args,               \* [s] the arguments of the running/last method, or None
  result,             \* [s] what the last method returned (save_data_in_h5():
                      \*     what it wrote to its h5py.File), or None
  freeRun,            \* [s] handle before and after each of the free() calls in a row
  calibration,        \* range_calibration.calibration, the module's global dict
  rangecal,           \* the running/last call of a function of range_calibration
  owner,              \* driver: the handle that owns the device, or None
  drv,                \* driver: the configuration it stores
  acq                 \* driver: acquisition state of the hardware

sessionVars == <<digitizer_handle, system_info>>
configVars == <<acquisition_config, channel_config, trigger_config>>
captureVars == <<status, segment, counts, data_matrix>>
driverVars == <<owner, drv, acq>>
rangecalVars == <<calibration, rangecal>>
digitizerVars == <<digitizer_handle, system_info, acquisition_config, channel_config,
                   trigger_config, pc, op, outcome, calls, status, segment, counts, data_matrix,
                   args, result, freeRun, owner, drv, acq>>
vars == <<digitizer_handle, system_info, acquisition_config, channel_config,
          trigger_config, pc, op, outcome, calls, status, segment, counts, data_matrix,
          args, result, freeRun, owner, drv, acq, calibration, rangecal>>

\* ------------------------------------------------------------ bookkeeping
Call(fn, h, seg, ret) == [fn |-> fn, h |-> h, seg |-> seg, ret |-> ret]

NoOutcome == [state |-> "none", err |-> "", missing |-> {}, warns |-> {}]
Running == [state |-> "running", err |-> "", missing |-> {}, warns |-> {}]
Returned(w) == [state |-> "returned", err |-> "", missing |-> {}, warns |-> w]
Raised(e) == [state |-> "raised", err |-> e, missing |-> {}, warns |-> {}]

\* The method of session s starts with the arguments a: first driver
\* call c (or none).
BeginWith(s, name, log, a) ==
  /\ op' = [op EXCEPT ![s] = name]
  /\ calls' = [calls EXCEPT ![s] = log]
  /\ args' = [args EXCEPT ![s] = a]
  /\ freeRun' = [freeRun EXCEPT ![s] = IF name = "free" THEN @ ELSE <<>>]

\* A method without arguments starts.
Begin(s, name, log) == BeginWith(s, name, log, None)

\* The running method makes one more driver call.
Logged(s, c) ==
  /\ calls' = [calls EXCEPT ![s] = Append(@, c)]
  /\ UNCHANGED <<op, args, freeRun>>

\* A running method has returned nothing yet.
Goto(s, where) ==
  /\ pc' = [pc EXCEPT ![s] = where]
  /\ outcome' = [outcome EXCEPT ![s] = Running]
  /\ result' = [result EXCEPT ![s] = None]

\* As Goto, with the warnings emitted so far.
GotoWarned(s, where, w) ==
  /\ pc' = [pc EXCEPT ![s] = where]
  /\ outcome' = [outcome EXCEPT ![s] = [Running EXCEPT !.warns = w]]
  /\ result' = [result EXCEPT ![s] = None]

RaiseMissing(s, e, m) ==
  /\ pc' = [pc EXCEPT ![s] = "idle"]
  /\ outcome' = [outcome EXCEPT ![s] = [Raised(e) EXCEPT !.missing = m]]
  /\ result' = [result EXCEPT ![s] = None]

\* A method that raises returns nothing.
Raise(s, e) ==
  /\ pc' = [pc EXCEPT ![s] = "idle"]
  /\ outcome' = [outcome EXCEPT ![s] = Raised(e)]
  /\ result' = [result EXCEPT ![s] = None]

\* The method returns the value v (None for a method without one).
ReturnValue(s, w, v) ==
  /\ pc' = [pc EXCEPT ![s] = "idle"]
  /\ outcome' = [outcome EXCEPT ![s] = Returned(w)]
  /\ result' = [result EXCEPT ![s] = v]

Return(s, w) == ReturnValue(s, w, None)

\* ------------------------------------------------------------ the driver
\* A handle is valid when it is the one that owns the device.
ValidHandle(h) == h # None /\ h = owner

\* Status of a call that takes a handle: an invalid handle is refused,
\* a valid one may still be refused (bad parameters, hardware fault).
StatusResults(h) == IF ValidHandle(h) THEN {CS_SUCCESS, CS_ERROR} ELSE {CS_ERROR}

\* PyGage.Initialize(): the subsystem comes up or it does not.
InitializeResults == {CS_SUCCESS, CS_ERROR}

\* PyGage.GetSystem(0,0,0,0): ownership is exclusive: a device that is
\* owned cannot be claimed; a free one is claimed (a handle) or not.
GetSystemResults == IF owner = None THEN Handles \cup {CS_ERROR} ELSE {CS_ERROR}

\* PyGage.GetSystemInfo(handle): a dict, or an int error code.
SystemInfoDict == [isDict |-> TRUE, code |-> 0]
SystemInfoError == [isDict |-> FALSE, code |-> CS_ERROR]
GetSystemInfoResults(h) ==
  IF ValidHandle(h) THEN {SystemInfoDict, SystemInfoError} ELSE {SystemInfoError}

\* No function of range_calibration has been called.
NoCall == [op |-> "none", args |-> None, state |-> "none", err |-> "",
           warned |-> FALSE, result |-> None]

\* The Digitizer objects after construction and the driver before use.
InitDigitizer ==
  /\ digitizer_handle = [s \in Sessions |-> None]
  /\ system_info = [s \in Sessions |-> None]
  /\ acquisition_config = [s \in Sessions |-> None]
  /\ channel_config = [s \in Sessions |-> None]
  /\ trigger_config = [s \in Sessions |-> None]
  /\ pc = [s \in Sessions |-> "idle"]
  /\ op = [s \in Sessions |-> "__init__"]
  /\ outcome = [s \in Sessions |-> NoOutcome]
  /\ calls = [s \in Sessions |-> <<>>]
  /\ status = [s \in Sessions |-> 0]
  /\ segment = [s \in Sessions |-> 0]
  /\ counts = [s \in Sessions |-> None]
  /\ data_matrix = [s \in Sessions |-> <<>>]
  /\ args = [s \in Sessions |-> None]
  /\ result = [s \in Sessions |-> None]
  /\ freeRun = [s \in Sessions |-> <<>>]
  /\ owner = None
  /\ drv = [acq |-> None,
            chan |-> [c \in Channels |-> None],
            trig |-> [e \in TriggerEngines |-> None]]
  /\ acq = "ready"

Init ==
  /\ InitDigitizer
  /\ calibration = [slope |-> None, offset |-> None, date |-> None, r_squared |-> None]
  /\ rangecal = NoCall

\* ------------------------------------------------------------ initialize()
initialize_Initialize(s) ==
  /\ pc[s] = "idle"
  /\ \E st \in InitializeResults :
       /\ Begin(s, "initialize", <<Call("Initialize", None, 0, st)>>)
       /\ IF st < 0
            THEN Raise(s, "Failed to initialize digitizer")
            ELSE Goto(s, "GetSystem")
  /\ UNCHANGED <<rangecalVars, sessionVars, configVars, captureVars, driverVars>>

\* Mutant: the handle is compared with 0 the wrong way round.
initialize_GetSystem_wrong_test(s) ==
  /\ pc[s] = "GetSystem"
  /\ \E r \in GetSystemResults :
       /\ owner' = IF r >= 0 THEN Some(r) ELSE owner
       /\ digitizer_handle' = [digitizer_handle EXCEPT ![s] = Some(r)]
       /\ Logged(s, Call("GetSystem", None, 0, r))
       /\ IF r > 0
            THEN Raise(s, "Failed to get ownership of digitizer")
            ELSE Goto(s, "GetSystemInfo")
  /\ UNCHANGED <<rangecalVars, system_info, configVars, captureVars, drv, acq>>

initialize_GetSystem(s) ==
  /\ pc[s] = "GetSystem"
  /\ \E r \in GetSystemResults :
       /\ owner' = IF r >= 0 THEN Some(r) ELSE owner
       /\ digitizer_handle' = [digitizer_handle EXCEPT ![s] = Some(r)]
       /\ Logged(s, Call("GetSystem", None, 0, r))
       /\ IF r < 0
            THEN Raise(s, "Failed to get ownership of digitizer")
            ELSE Goto(s, "GetSystemInfo")
  /\ UNCHANGED <<rangecalVars, system_info, configVars, captureVars, drv, acq>>

initialize_GetSystemInfo(s) ==
  /\ pc[s] = "GetSystemInfo"
  /\ \E r \in GetSystemInfoResults(digitizer_handle[s]) :
       /\ system_info' = [system_info EXCEPT ![s] = Some(r)]
       /\ Logged(s, Call("GetSystemInfo", digitizer_handle[s], 0,
                         IF r.isDict THEN CS_SUCCESS ELSE r.code))
       /\ IF ~r.isDict
            THEN Raise(s, "Failed to get digitizer info")
            ELSE Return(s, {})
  /\ UNCHANGED <<rangecalVars, digitizer_handle, configVars, captureVars, driverVars>>

\* ------------------------------------------------------------ free()
\* Mutant: the handle is dropped whatever FreeSystem answers.
free_always_clears(s) ==
  /\ pc[s] = "idle"
  /\ op' = [op EXCEPT ![s] = "free"]
  /\ args' = [args EXCEPT ![s] = None]
  /\ IF Truthy(digitizer_handle[s])
       THEN \E st \in StatusResults(digitizer_handle[s]) :
              /\ calls' = [calls EXCEPT ![s] =
                    <<Call("FreeSystem", digitizer_handle[s], 0, st)>>]
              /\ digitizer_handle' = [digitizer_handle EXCEPT ![s] = None]
              /\ owner' = IF st < 0 THEN owner ELSE None
              /\ Return(s, IF st < 0 THEN {"Failed to free system"} ELSE {})
       ELSE /\ calls' = [calls EXCEPT ![s] = <<>>]
            /\ Return(s, {"Not attempting to free system"})
            /\ UNCHANGED <<digitizer_handle, owner>>
  /\ freeRun' = [freeRun EXCEPT ![s] =
        IF op[s] = "free"
          THEN <<@[Len(@) - 1], @[Len(@)], digitizer_handle'[s]>>
          ELSE <<digitizer_handle[s], digitizer_handle'[s]>>]
  /\ UNCHANGED <<rangecalVars, system_info, configVars, captureVars, drv, acq>>

free(s) ==
  /\ pc[s] = "idle"
  /\ op' = [op EXCEPT ![s] = "free"]
  /\ args' = [args EXCEPT ![s] = None]
  /\ IF Truthy(digitizer_handle[s])
       THEN \E st \in StatusResults(digitizer_handle[s]) :
              /\ calls' = [calls EXCEPT ![s] =
                    <<Call("FreeSystem", digitizer_handle[s], 0, st)>>]
              /\ IF st < 0
                   THEN /\ Return(s, {"Failed to free system"})
                        /\ UNCHANGED <<digitizer_handle, owner>>
                   ELSE /\ digitizer_handle' = [digitizer_handle EXCEPT ![s] = None]
                        /\ owner' = None
                        /\ Return(s, {})
       ELSE /\ calls' = [calls EXCEPT ![s] = <<>>]
            /\ Return(s, {"Not attempting to free system"})
            /\ UNCHANGED <<digitizer_handle, owner>>
  /\ freeRun' = [freeRun EXCEPT ![s] =
        IF op[s] = "free"
          THEN <<@[Len(@) - 1], @[Len(@)], digitizer_handle'[s]>>
          ELSE <<digitizer_handle[s], digitizer_handle'[s]>>]
  /\ UNCHANGED <<rangecalVars, system_info, configVars, captureVars, drv, acq>>

\* ------------------------------------------------------------ load_configuration()
\* str.lower() on the strings the configuration files use.
Lower(x) ==
  CASE x = "Single" -> "single"
    [] x = "Dual" -> "dual"
    [] x = "QUAD" -> "quad"
    [] x = "Oct" -> "oct"
    [] x \in {"External", "EXTERNAL"} -> "external"
    [] x \in {"Rising", "RISING"} -> "rising"
    [] x = "R" -> "r"
    [] x = "Positive" -> "positive"
    [] x = "P" -> "p"
    [] x = "Falling" -> "falling"
    [] x = "F" -> "f"
    [] x = "NEGATIVE" -> "negative"
    [] x = "N" -> "n"
    [] x = "Internal" -> "internal"
    [] x = "Up" -> "up"
    [] OTHER -> x

\* int() of a TOML number given in tenths: truncation.
IntOf(tenths) == tenths \div 10

\* The parsed TOML files (tomllib.load's result).
ExampleConfig1 ==
  [acquisition |-> [mode |-> Str("Single"), sample_rate |-> 10000, n_samples |-> 4,
                    trigger_delay |-> 0, segment_count |-> MaxSegments],
   channel |-> [channel |-> 1, range |-> 2000, dc_offset |-> 0],
   trigger |-> [source |-> Str("External"), condition |-> Str("Rising"), level |-> 50]]

ExampleConfig2 ==
  [acquisition |-> [mode |-> Num(2), sample_rate |-> 5005, n_samples |-> 2,
                    trigger_delay |-> 1, segment_count |-> 1],
   channel |-> [channel |-> 2, range |-> 1000, dc_offset |-> 100],
   trigger |-> [source |-> Num(1), condition |-> Num(0), level |-> 10]]

InvalidTrigSourceConfig ==
  [ExampleConfig2 EXCEPT !.trigger.source = Str("internal")]

ConfigFiles == {ExampleConfig1, ExampleConfig2, InvalidTrigSourceConfig}

\* Files that differ in their trigger section: sources and conditions as
\* strings in several spellings, and as integers.
TriggerSources ==
  {Str(x) : x \in {"external", "External", "EXTERNAL", "internal", "Internal",
                   "ext", "1", ""}}
    \cup {Num(n) : n \in {-1, 1, 2}}
TriggerConditions ==
  {Str(x) : x \in {"rising", "r", "positive", "p", "Rising", "RISING", "R",
                   "Positive", "P", "falling", "f", "negative", "n", "Falling",
                   "F", "NEGATIVE", "N", "up", "Up", "risin", "1", ""}}
    \cup {Num(n) : n \in {0, 1, 2}}
TriggerFiles ==
  {[ExampleConfig1 EXCEPT !.trigger.source = src, !.trigger.condition = c] :
     src \in TriggerSources, c \in TriggerConditions}

\* Files that differ in their acquisition mode: the four modes as words
\* and as integers, and values that name no mode.
Modes ==
  {Str(x) : x \in {"single", "Single", "dual", "Dual", "quad", "QUAD", "oct", "Oct",
                   "triple", "2", ""}}
    \cup {Num(n) : n \in {0, 1, 2, 3, 4, 8}}
ModeFiles == {[ExampleConfig2 EXCEPT !.acquisition.mode = m] : m \in Modes}

ParseMode(m) ==
  LET mode == IF m.isStr THEN Str(Lower(m.s)) ELSE m
  IN  CASE mode \in {Str("single"), Num(1)} -> Num(CS_MODE_SINGLE)
        [] mode \in {Str("dual"), Num(2)} -> Num(CS_MODE_DUAL)
        [] mode \in {Str("quad"), Num(4)} -> Num(CS_MODE_QUAD)
        [] mode \in {Str("oct"), Num(8)} -> Num(CS_MODE_OCT)
        [] OTHER -> mode

MakeAcquisitionConfig(config) ==
  [SampleRate |-> IntOf(config.acquisition.sample_rate),
   SegmentSize |-> config.acquisition.n_samples,
   TriggerDelay |-> config.acquisition.trigger_delay,
   SegmentCount |-> config.acquisition.segment_count,
   Mode |-> ParseMode(config.acquisition.mode)]

MakeChannelConfig(config) ==
  [Channel |-> config.channel.channel,
   InputRange |-> config.channel.range,
   DcOffset |-> config.channel.dc_offset]

\* Mutant: the source is compared as it is spelled.
ParseTriggerSource_case_sensitive(src) ==
  IF src.isStr
    THEN IF src.s = "external" THEN Some(CS_TRIG_SOURCE_EXT) ELSE None
    ELSE Some(src.i)

\* None when the source is a string other than "external" (ValueError).
ParseTriggerSource(src) ==
  IF src.isStr
    THEN IF Lower(src.s) = "external" THEN Some(CS_TRIG_SOURCE_EXT) ELSE None
    ELSE Some(src.i)

\* Mutant: "p" is taken for a falling edge.
ParseTriggerCondition_p_falls(c) ==
  IF c.isStr
    THEN CASE Lower(c.s) \in {"rising", "r", "positive"} -> Some(CS_TRIG_COND_POS_SLOPE)
           [] Lower(c.s) \in {"falling", "f", "negative", "n", "p"} -> Some(CS_TRIG_COND_NEG_SLOPE)
           [] OTHER -> None
    ELSE Some(c.i)

\* None when the condition is an unrecognised string (ValueError).
ParseTriggerCondition(c) ==
  IF c.isStr
    THEN CASE Lower(c.s) \in {"rising", "r", "positive", "p"} -> Some(CS_TRIG_COND_POS_SLOPE)
           [] Lower(c.s) \in {"falling", "f", "negative", "n"} -> Some(CS_TRIG_COND_NEG_SLOPE)
           [] OTHER -> None
    ELSE Some(c.i)

load_configuration(s, config) ==
  /\ pc[s] = "idle"
  /\ BeginWith(s, "load_configuration", <<>>, Some(config))
  /\ acquisition_config' = [acquisition_config EXCEPT ![s] = Some(MakeAcquisitionConfig(config))]
  /\ channel_config' = [channel_config EXCEPT ![s] = Some(MakeChannelConfig(config))]
  /\ LET source == ParseTriggerSource(config.trigger.source)
         condition == ParseTriggerCondition(config.trigger.condition)
     IN  IF source = None
           THEN /\ Raise(s, "Invalid trigger source setting")
                /\ UNCHANGED trigger_config
           ELSE IF condition = None
             THEN /\ Raise(s, "Invalid trigger condition setting")
                  /\ UNCHANGED trigger_config
             ELSE /\ trigger_config' = [trigger_config EXCEPT ![s] =
                        Some([Condition |-> Val(condition),
                              Level |-> config.trigger.level,
                              Source |-> Val(source)])]
                  /\ Return(s, {})
  /\ UNCHANGED <<rangecalVars, sessionVars, captureVars, driverVars>>

\* A caller assigns None to one of the three public config attributes.
ConfigSections == <<"acquisition", "channel", "trigger">>

set_config_none(s, section) ==
  /\ pc[s] = "idle"
  /\ acquisition_config' = IF section = "acquisition"
        THEN [acquisition_config EXCEPT ![s] = None] ELSE acquisition_config
  /\ channel_config' = IF section = "channel"
        THEN [channel_config EXCEPT ![s] = None] ELSE channel_config
  /\ trigger_config' = IF section = "trigger"
        THEN [trigger_config EXCEPT ![s] = None] ELSE trigger_config
  /\ <<acquisition_config', channel_config', trigger_config'>> # configVars
  /\ Begin(s, "set_config_none", <<>>)
  /\ Return(s, {})
  /\ UNCHANGED <<rangecalVars, sessionVars, captureVars, driverVars>>

\* ------------------------------------------------------------ configure()
\* Mutant: only the first empty config is reported.
empty_configs_first(s) ==
  IF acquisition_config[s] = None THEN <<"acquisition">>
  ELSE IF channel_config[s] = None THEN <<"channel">>
  ELSE IF trigger_config[s] = None THEN <<"trigger">>
  ELSE <<>>

\* The names of the empty configs, in the order of config_strings.
empty_configs(s) ==
  LET config_is_empty == <<acquisition_config[s] = None,
                           channel_config[s] = None,
                           trigger_config[s] = None>>
  IN  SelectSeq(ConfigSections,
                LAMBDA n : \E i \in 1..3 : ConfigSections[i] = n /\ config_is_empty[i])

\* Mutant: Depth taken from the wrong field.
AcquisitionDict_DepthFromCount(cfg) ==
  [SampleRate |-> cfg.SampleRate, SegmentCount |-> cfg.SegmentCount,
   SegmentSize |-> cfg.SegmentSize, TriggerDelay |-> cfg.TriggerDelay,
   Mode |-> cfg.Mode, Depth |-> cfg.SegmentCount]

\* acquisition_config._asdict() with Depth added.
AcquisitionDict(cfg) ==
  [SampleRate |-> cfg.SampleRate, SegmentCount |-> cfg.SegmentCount,
   SegmentSize |-> cfg.SegmentSize, TriggerDelay |-> cfg.TriggerDelay,
   Mode |-> cfg.Mode, Depth |-> cfg.SegmentSize]

\* channel_config._asdict() with Channel deleted.
ChannelDict(cfg) == [InputRange |-> cfg.InputRange, DcOffset |-> cfg.DcOffset]

TriggerDict(cfg) ==
  [Condition |-> cfg.Condition, Level |-> cfg.Level, Source |-> cfg.Source]

\* Driver: an accepted Set*Config is stored.
DrvSetAcquisition(st, d) ==
  drv' = IF st < 0 THEN drv ELSE [drv EXCEPT !.acq = Some(d)]

DrvSetChannel(st, channel, d) ==
  drv' = IF st < 0 THEN drv
         ELSE [drv EXCEPT !.chan[channel] = Some(d)]

DrvSetTrigger(st, engine, d) ==
  drv' = IF st < 0 THEN drv
         ELSE [drv EXCEPT !.trig[engine] = Some(d)]

\* Commit moves the stored configuration to the hardware; the stored
\* configuration itself stays as it is.
DrvCommit(st) == drv' = drv

configure_SetAcquisitionConfig(s) ==
  /\ pc[s] = "idle"
  /\ IF empty_configs(s) # <<>>
       THEN /\ Begin(s, "configure", <<>>)
            /\ RaiseMissing(s, "Refusing to configure the digitizer",
                            {empty_configs(s)[i] : i \in 1..Len(empty_configs(s))})
            /\ UNCHANGED drv
       ELSE \E st \in StatusResults(digitizer_handle[s]) :
              /\ Begin(s, "configure",
                       <<Call("SetAcquisitionConfig", digitizer_handle[s], 0, st)>>)
              /\ DrvSetAcquisition(st, AcquisitionDict(Val(acquisition_config[s])))
              /\ IF st < 0
                   THEN Raise(s, "Error setting acquisition config")
                   ELSE Goto(s, "SetChannelConfig")
  /\ UNCHANGED <<rangecalVars, sessionVars, configVars, captureVars, owner, acq>>

\* Mutant: the status of SetChannelConfig is not checked.
configure_SetChannelConfig_unchecked(s) ==
  /\ pc[s] = "SetChannelConfig"
  /\ \E st \in StatusResults(digitizer_handle[s]) :
       /\ Logged(s, Call("SetChannelConfig", digitizer_handle[s], 0, st))
       /\ DrvSetChannel(st, Val(channel_config[s]).Channel,
                        ChannelDict(Val(channel_config[s])))
       /\ Goto(s, "SetTriggerConfig")
  /\ UNCHANGED <<rangecalVars, sessionVars, configVars, captureVars, owner, acq>>

configure_SetChannelConfig(s) ==
  /\ pc[s] = "SetChannelConfig"
  /\ \E st \in StatusResults(digitizer_handle[s]) :
       /\ Logged(s, Call("SetChannelConfig", digitizer_handle[s], 0, st))
       /\ DrvSetChannel(st, Val(channel_config[s]).Channel,
                        ChannelDict(Val(channel_config[s])))
       /\ IF st < 0
            THEN Raise(s, "Error setting channel config")
            ELSE Goto(s, "SetTriggerConfig")
  /\ UNCHANGED <<rangecalVars, sessionVars, configVars, captureVars, owner, acq>>

configure_SetTriggerConfig(s) ==
  /\ pc[s] = "SetTriggerConfig"
  /\ \E st \in StatusResults(digitizer_handle[s]) :
       /\ Logged(s, Call("SetTriggerConfig", digitizer_handle[s], 0, st))
       /\ DrvSetTrigger(st, trigger_engine, TriggerDict(Val(trigger_config[s])))
       /\ IF st < 0
            THEN Raise(s, "Error setting trigger config")
            ELSE Goto(s, "Commit")
  /\ UNCHANGED <<rangecalVars, sessionVars, configVars, captureVars, owner, acq>>

configure_Commit(s) ==
  /\ pc[s] = "Commit"
  /\ \E st \in StatusResults(digitizer_handle[s]) :
       /\ Logged(s, Call("Commit", digitizer_handle[s], 0, st))
       /\ DrvCommit(st)
       /\ IF st < 0
            THEN Raise(s, "Error committing settings to hardware")
            ELSE Return(s, {})
  /\ UNCHANGED <<rangecalVars, sessionVars, configVars, captureVars, owner, acq>>

\* ------------------------------------------------------------ capture()
\* Driver: PyGage.GetStatus(handle) reports the hardware's state.
GetStatusResult(h) ==
  IF ~ValidHandle(h) THEN CS_ERROR
  ELSE CASE acq = "ready" -> ACQ_STATUS_READY
         [] acq = "busy" -> ACQ_STATUS_BUSY
         [] OTHER -> CS_ERROR

\* Driver: PyGage.TransferData answers an int error code, or a tuple
\* (samples, actual start address, actual length); the driver may move
\* the start address and shorten the transfer for alignment.
TransferError == [isInt |-> TRUE, code |-> CS_ERROR, start |-> 0, length |-> 0]
TransferTuple(a, n) == [isInt |-> FALSE, code |-> 0, start |-> a, length |-> n]
TransferDataResults(h, start_address, length) ==
  IF ValidHandle(h)
    THEN {TransferError, TransferTuple(start_address, length),
          TransferTuple(start_address + 1, length - 1)}
    ELSE {TransferError}

\* The samples of a successful transfer: those the acquisition memory
\* holds for the segment, from the actual start address on.  The buffer
\* has the requested length; the actual length tells how much of it is valid.
SamplesOf(seg, ret) == [segment |-> seg, start |-> ret.start, length |-> ret.length]

\* A TransferData call in the log, with the arguments it was made with.
TransferCall(fn, h, channel, mode, seg, start_address, length, ret) ==
  [fn |-> fn, h |-> h, seg |-> seg, ret |-> ret, channel |-> channel,
   mode |-> mode, start |-> start_address, length |-> length]

\* Driver: a timestamp transfer answers an int error code, or a tuple
\* whose first element holds one raw counter value per requested segment.
\* The counter runs from the start of the capture: it does not decrease,
\* and its first value is whatever it is at the first trigger.
CounterValues == {0, 1, 2}
RawCounts(n) ==
  {c \in [1..n -> CounterValues] : \A i \in 1..(n - 1) : c[i] <= c[i + 1]}
TimestampError == [isInt |-> TRUE, code |-> CS_ERROR, counts |-> <<>>]
TimestampTuple(c) == [isInt |-> FALSE, code |-> 0, counts |-> c]
TransferTimestampResults(h, length) ==
  IF ValidHandle(h)
    THEN {TimestampError} \cup {TimestampTuple(c) : c \in RawCounts(length)}
    ELSE {TimestampError}

\* Driver: PyGage.GetTimeStampFrequency answers counts per second, or a
\* negative error code.
TimeStampFrequency == 10
TimeStampFrequencies == {TimeStampFrequency, 3, 1024}
GetTimeStampFrequencyResults(h) ==
  IF ValidHandle(h) THEN TimeStampFrequencies \cup {CS_ERROR} ELSE {CS_ERROR}

\* np.round(num / den) for den # 0: to the nearest integer, a half to
\* the even neighbour.
np_round(num, den) ==
  LET n == IF num < 0 THEN -num ELSE num
      d == IF den < 0 THEN -den ELSE den
      q == n \div d
      r == n % d
      up == 2 * r > d \/ (2 * r = d /\ q % 2 = 1)
      m == IF up THEN q + 1 ELSE q
  IN  IF (num < 0) = (den < 0) THEN m ELSE -m

NANOSECONDS_PER_SECOND == 1000000000

\* np.round(counts / counts_per_second * NANOSECONDS_PER_SECOND)
CountsToNanoseconds(c, counts_per_second) ==
  [i \in 1..Len(c) |-> np_round(c[i] * NANOSECONDS_PER_SECOND, counts_per_second)]

\* Mutant: the counts are made to start at 0 before they are converted.
TimestampsOf_counts_from_zero(c, counts_per_second) ==
  CountsToNanoseconds([i \in 1..Len(c) |-> c[i] - c[1]], counts_per_second)

\* timestamps - timestamps[0] of the converted counts.
TimestampsOf(c, counts_per_second) ==
  LET ts == CountsToNanoseconds(c, counts_per_second)
  IN  [i \in 1..Len(ts) |-> ts[i] - ts[1]]

\* The hardware finishes the acquisition it was armed for, or faults.
HwComplete ==
  /\ acq = "busy"
  /\ acq' \in {"ready", "error"}
  /\ UNCHANGED <<rangecalVars, sessionVars, configVars, captureVars, pc, op, outcome, calls,
                 args, result, freeRun, owner, drv>>

capture_StartCapture(s) ==
  /\ pc[s] = "idle"
  /\ \E st \in StatusResults(digitizer_handle[s]) :
       /\ Begin(s, "capture", <<Call("StartCapture", digitizer_handle[s], 0, st)>>)
       /\ status' = [status EXCEPT ![s] = st]
       /\ acq' = IF st < 0 THEN acq ELSE "busy"
       /\ IF st < 0
            THEN Raise(s, "Error starting capture")
            ELSE Goto(s, "GetStatus")
  /\ UNCHANGED <<rangecalVars, sessionVars, configVars, segment, counts, data_matrix, owner, drv>>

\* Mutant: the poll loop is left on any status that is no error.
PollDone_not_failed(st) == st >= 0

\* np.empty(shape=(segment_size, n_segments)): n_segments columns that
\* hold nothing yet.
np_empty(n_segments) == [k \in 1..n_segments |-> None]

\* The poll loop leaves on READY and raises on a negative status.
PollDone(st) == st = ACQ_STATUS_READY

\* Mutant: a negative status is polled again.
PollFailed_never(st) == FALSE

PollFailed(st) == st < 0

\* The GetStatus calls of the log: at most MaxPollLog are kept, a later
\* answer replaces the last kept one.
LogPoll(log, c) ==
  IF Cardinality({i \in 1..Len(log) : log[i].fn = "GetStatus"}) < MaxPollLog
    THEN Append(log, c)
    ELSE [log EXCEPT ![Len(log)] = c]

\* One GetStatus call and the loop test that follows it; on READY,
\* _transfer_data_from_adc() starts: it reads the acquisition config.
capture_GetStatus(s) ==
  /\ pc[s] = "GetStatus"
  /\ UNCHANGED counts
  /\ data_matrix' = [data_matrix EXCEPT ![s] =
        IF PollDone(GetStatusResult(digitizer_handle[s])) /\ acquisition_config[s] # None
          THEN np_empty(Val(acquisition_config[s]).SegmentCount) ELSE <<>>]
  /\ LET st == GetStatusResult(digitizer_handle[s])
     IN  /\ status' = [status EXCEPT ![s] = st]
         /\ calls' = [calls EXCEPT ![s] =
               LogPoll(@, Call("GetStatus", digitizer_handle[s], 0, st))]
         /\ IF PollDone(st)
              THEN IF acquisition_config[s] = None
                     THEN Raise(s, "AttributeError") /\ UNCHANGED segment
                     ELSE /\ segment' = [segment EXCEPT ![s] = 1]
                          /\ IF Val(acquisition_config[s]).SegmentCount >= 1
                               THEN Goto(s, "TransferData")
                               ELSE Goto(s, "TransferTimestamps")
              ELSE IF PollFailed(st)
                     THEN Raise(s, "Error getting digitizer status") /\ UNCHANGED segment
                     ELSE Goto(s, "GetStatus") /\ UNCHANGED segment
  /\ UNCHANGED <<rangecalVars, sessionVars, configVars, op, args, freeRun, driverVars>>

\* The locals of capture() end with it.
DropLocals(s) ==
  /\ status' = [status EXCEPT ![s] = 0]
  /\ segment' = [segment EXCEPT ![s] = 0]
  /\ counts' = [counts EXCEPT ![s] = None]
  /\ data_matrix' = [data_matrix EXCEPT ![s] = <<>>]

\* The text of the two alignment warnings.
StartAddressWarning(actual, requested) ==
  "Actual start address differs from requested: actual=" \o ToString(actual)
    \o ", requested=" \o ToString(requested)

\* Mutant: the warning names the requested length only.
TransferLengthWarning_requested_only(actual, requested) ==
  "Actual transfer length differs from requested: requested=" \o ToString(requested)

TransferLengthWarning(actual, requested) ==
  "Actual transfer length differs from requested: actual=" \o ToString(actual)
    \o ", requested=" \o ToString(requested)

\* Mutant: every segment is stored in the first column.
StoreColumn_first(matrix, seg, samples) == [matrix EXCEPT ![1] = Some(samples)]

\* data[:, segment - 1] = ret[0]
StoreColumn(matrix, seg, samples) == [matrix EXCEPT ![seg] = Some(samples)]

\* One iteration of the segment loop of _transfer_data_from_adc().
transfer_data_from_adc(s) ==
  /\ pc[s] = "TransferData"
  /\ IF channel_config[s] = None
       THEN /\ Raise(s, "AttributeError")
            /\ DropLocals(s)
            /\ UNCHANGED calls
       ELSE LET n_segments == Val(acquisition_config[s]).SegmentCount
                segment_size == Val(acquisition_config[s]).SegmentSize
                start_address == Val(acquisition_config[s]).TriggerDelay
            IN  \E ret \in TransferDataResults(digitizer_handle[s], start_address, segment_size) :
                  /\ calls' = [calls EXCEPT ![s] =
                        Append(@, TransferCall("TransferData", digitizer_handle[s],
                                               Val(channel_config[s]).Channel,
                                               "TxMODE_DEFAULT", segment[s],
                                               start_address, segment_size,
                                               IF ret.isInt THEN ret.code ELSE CS_SUCCESS))]
                  /\ IF ret.isInt
                       THEN Raise(s, "Error transferring data") /\ DropLocals(s)
                       ELSE /\ data_matrix' = [data_matrix EXCEPT ![s] =
                                  StoreColumn(@, segment[s], SamplesOf(segment[s], ret))]
                            /\ segment' = [segment EXCEPT ![s] = @ + 1]
                            /\ UNCHANGED <<status, counts>>
                            /\ GotoWarned(s,
                                 IF segment[s] < n_segments
                                   THEN "TransferData" ELSE "TransferTimestamps",
                                 outcome[s].warns
                                   \cup (IF start_address # ret.start
                                           THEN {StartAddressWarning(ret.start, start_address)}
                                           ELSE {})
                                   \cup (IF ret.length # segment_size
                                           THEN {TransferLengthWarning(ret.length, segment_size)}
                                           ELSE {}))
  /\ UNCHANGED <<rangecalVars, sessionVars, configVars, op, args, freeRun, driverVars>>

\* _transfer_timestamps(): the timestamp transfer.
transfer_timestamps_TransferData(s) ==
  /\ pc[s] = "TransferTimestamps"
  /\ IF channel_config[s] = None
       THEN /\ Raise(s, "AttributeError")
            /\ DropLocals(s)
            /\ UNCHANGED calls
       ELSE \E ret \in TransferTimestampResults(digitizer_handle[s],
                                                Val(acquisition_config[s]).SegmentCount) :
              /\ calls' = [calls EXCEPT ![s] =
                    Append(@, TransferCall("TransferTimestamps", digitizer_handle[s],
                                           Val(channel_config[s]).Channel,
                                           "TxMODE_TIMESTAMP", 1, 1,
                                           Val(acquisition_config[s]).SegmentCount,
                                           IF ret.isInt THEN ret.code ELSE CS_SUCCESS))]
              /\ IF ret.isInt
                   THEN Raise(s, "Error transferring timestamps") /\ DropLocals(s)
                   ELSE /\ GotoWarned(s, "GetTimeStampFrequency", outcome[s].warns)
                        /\ counts' = [counts EXCEPT ![s] = Some(ret.counts)]
                        /\ UNCHANGED <<status, segment, data_matrix>>
  /\ UNCHANGED <<rangecalVars, sessionVars, configVars, op, args, freeRun, driverVars>>

\* _transfer_timestamps(): the clock frequency is fetched and used as it
\* comes; capture() then returns (data, timestamps, capture_start_time).
\* Without a first timestamp (no segment) timestamps[0] is an IndexError.
transfer_timestamps_GetTimeStampFrequency(s) ==
  /\ pc[s] = "GetTimeStampFrequency"
  /\ \E counts_per_second \in GetTimeStampFrequencyResults(digitizer_handle[s]) :
       /\ calls' = [calls EXCEPT ![s] =
             Append(@, Call("GetTimeStampFrequency", digitizer_handle[s], 0,
                            counts_per_second))]
       /\ IF Val(counts[s]) = <<>>
            THEN Raise(s, "IndexError")
            ELSE ReturnValue(s, outcome[s].warns,
                   Some([data |-> data_matrix[s],
                         timestamps |-> TimestampsOf(Val(counts[s]), counts_per_second)]))
       /\ DropLocals(s)
  /\ UNCHANGED <<rangecalVars, sessionVars, configVars, op, args, freeRun, driverVars>>

\* ------------------------------------------------------------ convert_to_volts()
\* Python floats, as exact fractions [num, den] in lowest terms, den > 0.
RECURSIVE Gcd(_, _)
Gcd(a, b) == IF b = 0 THEN a ELSE Gcd(b, a % b)

Frac(n, d) ==
  LET an == IF n < 0 THEN -n ELSE n
      ad == IF d < 0 THEN -d ELSE d
      g == Gcd(an, ad)
      sign == IF (n < 0) = (d < 0) THEN 1 ELSE -1
  IN  [num |-> sign * (an \div g), den |-> ad \div g]

FracAdd(x, y) == Frac(x.num * y.den + y.num * x.den, x.den * y.den)
FracMul(x, y) == Frac(x.num * y.num, x.den * y.den)
FracDiv(x, y) == Frac(x.num * y.den, x.den * y.num)

\* Driver: PyGage.GetAcquisitionConfig answers an int error code, or a
\* dict that holds the digitizer model's SampleOffset and SampleResolution
\* (minus two to the number of bits less one).
DigitizerModels ==
  {[SampleOffset |-> -1, SampleResolution |-> -8],
   [SampleOffset |-> 0, SampleResolution |-> -4]}
AcquisitionConfigError ==
  [isInt |-> TRUE, code |-> CS_ERROR, SampleOffset |-> 0, SampleResolution |-> 0]
GetAcquisitionConfigResults(h) ==
  IF ValidHandle(h)
    THEN {AcquisitionConfigError}
           \cup {[isInt |-> FALSE, code |-> 0, SampleOffset |-> m.SampleOffset,
                   SampleResolution |-> m.SampleResolution] : m \in DigitizerModels}
    ELSE {AcquisitionConfigError}

\* The raw_data arguments: one or two ADC codes.
AdcCodes == {-2, -1, 0, 1}
RawData == {<<r>> : r \in AdcCodes} \cup {<<r, q>> : r \in AdcCodes, q \in AdcCodes}

\* Mutant: the full input range instead of half of it.
VoltageOf_full_range(raw_code, sample_offset, sample_resolution, cfg) ==
  LET input_range == Frac(cfg.InputRange, 1000)
      dc_offset == Frac(cfg.DcOffset, 1000)
  IN  FracAdd(FracMul(FracDiv(Frac(sample_offset - raw_code, 1), Frac(sample_resolution, 1)),
                      input_range),
              dc_offset)

\* One element of voltage_data, in the order the code computes it.
VoltageOf(raw_code, sample_offset, sample_resolution, cfg) ==
  LET input_range == Frac(cfg.InputRange, 1000)
      dc_offset == Frac(cfg.DcOffset, 1000)
  IN  FracAdd(FracMul(FracDiv(Frac(sample_offset - raw_code, 1), Frac(sample_resolution, 1)),
                      FracDiv(input_range, Frac(2, 1))),
              dc_offset)

convert_to_volts(s, raw_data) ==
  /\ pc[s] = "idle"
  /\ \E ret \in GetAcquisitionConfigResults(digitizer_handle[s]) :
       /\ BeginWith(s, "convert_to_volts",
                     <<Call("GetAcquisitionConfig", digitizer_handle[s], 0,
                            IF ret.isInt THEN ret.code ELSE CS_SUCCESS)>>,
                     Some(raw_data))
       /\ IF ret.isInt
            THEN Raise(s, "Error getting acquisition config")
            ELSE IF channel_config[s] = None
              THEN Raise(s, "AttributeError")
              ELSE ReturnValue(s, {},
                     Some([sample_offset |-> ret.SampleOffset,
                           sample_resolution |-> ret.SampleResolution,
                           voltage_data |->
                             [i \in 1..Len(raw_data) |->
                                VoltageOf(raw_data[i], ret.SampleOffset,
                                          ret.SampleResolution, Val(channel_config[s]))]]))
  /\ UNCHANGED <<rangecalVars, sessionVars, configVars, captureVars, driverVars>>

\* ------------------------------------------------------------ save_data_in_h5()
\* Bound: the largest size of a dimension of the arrays handed to
\* save_data_in_h5().
MaxDim == 2

Dims == 1..MaxDim

\* The arguments of save_data_in_h5() as far as the method looks at
\* them: the shapes of data (2- or 3-dimensional) and timestamps (1- or
\* 2-dimensional), capture_time (a str, or the shape of an array of
\* strings), data_is_volts, and the length of distance (or None).  The
\* h5py.File is new and empty.
H5Arguments ==
  [data : (Dims \X Dims) \cup (Dims \X Dims \X Dims),
   timestamps : {<<n>> : n \in Dims} \cup (Dims \X Dims),
   capture_time : {[isStr |-> TRUE, shape |-> <<>>]}
                    \cup {[isStr |-> FALSE, shape |-> <<n>>] : n \in Dims},
   data_is_volts : BOOLEAN,
   distance : {None} \cup {Some(n) : n \in Dims}]

\* The method is entered with the arguments a.
save_data_in_h5_call(s, a) ==
  /\ pc[s] = "idle"
  /\ BeginWith(s, "save_data_in_h5", <<>>, Some(a))
  /\ Goto(s, "save_data_in_h5")
  /\ UNCHANGED <<rangecalVars, sessionVars, configVars, captureVars, driverVars>>

\* np.expand_dims(a, axis=0) on a shape.
expand_dims(shape) == <<1>> \o shape

\* Mutant: only data and timestamps are compared.
first_dimensions_match_without_capture_time(data, timestamps, capture_time) ==
  data[1] = timestamps[1]

first_dimensions_match(data, timestamps, capture_time) ==
  data[1] = timestamps[1] /\ data[1] = capture_time[1]

\* The groups of the file that are written after the data, in order:
\* each is created and then filled from an attribute of self.
MetadataGroups ==
  <<"digitizer/info", "digitizer/config/acquisition", "digitizer/config/channel",
    "digitizer/config/trigger">>

\* The number of metadata groups created: iterating an attribute that
\* is None raises after its group was created.
GroupsCreated(s) ==
  LET source == <<system_info[s], acquisition_config[s], channel_config[s],
                  trigger_config[s]>>
      missing == {k \in 1..Len(source) : source[k] = None}
  IN  IF missing = {} THEN Len(source)
      ELSE CHOOSE k \in missing : \A j \in missing : k <= j

\* The body of save_data_in_h5(): the checks of the shapes, then the
\* writes to the file.
save_data_in_h5(s) ==
  /\ pc[s] = "save_data_in_h5"
  /\ LET a == Val(args[s])
         data == IF Len(a.data) = 2 THEN expand_dims(a.data) ELSE a.data
         timestamps == IF Len(a.timestamps) = 1 THEN expand_dims(a.timestamps)
                       ELSE a.timestamps
         capture_time == IF a.capture_time.isStr THEN expand_dims(<<1>>)
                         ELSE a.capture_time.shape
         bad == \/ ~first_dimensions_match(data, timestamps, capture_time)
                \/ data[3] # timestamps[2]
                \/ a.distance # None /\ data[2] # Val(a.distance)
         written == [data |-> data, timestamps |-> timestamps,
                     capture_time |-> capture_time, distance |-> a.distance,
                     units |-> IF a.data_is_volts THEN "V" ELSE "ADC count",
                     range_label |-> IF a.distance # None THEN "distance"
                                     ELSE "range bin",
                     groups |-> SubSeq(MetadataGroups, 1, GroupsCreated(s))]
     IN  IF bad THEN Raise(s, "ValueError")
         ELSE /\ pc' = [pc EXCEPT ![s] = "idle"]
              /\ result' = [result EXCEPT ![s] = Some(written)]
              /\ outcome' = [outcome EXCEPT ![s] =
                     IF GroupsCreated(s) = Len(MetadataGroups)
                          /\ trigger_config[s] # None
                       THEN Returned({}) ELSE Raised("AttributeError")]
  /\ UNCHANGED <<rangecalVars, sessionVars, configVars, captureVars, driverVars,
                 op, args, calls, freeRun>>

\* ------------------------------------------------------------ range_calibration
\* A TOML value: its Python type after tomllib.load, and its number
\* (True is 1; a value that is no number has 0).
Toml(type, num) == [type |-> type, num |-> num]

\* isinstance(x, (int, float)): bool is a subclass of int.
IsIntOrFloat(x) == x.type \in {"int", "float", "bool"}

EXPECTED_FIELDS == {"slope", "offset", "date", "r-squared"}

\* The parsed calibration files: their key set, and the values of the
\* keys slope, offset and date where the file has them.
CalibrationFiles ==
  LET KeySets == {EXPECTED_FIELDS, EXPECTED_FIELDS \ {"r-squared"},
                  EXPECTED_FIELDS \cup {"units"}, EXPECTED_FIELDS \ {"slope"}, {}}
      Numbers == {Toml("float", 2), Toml("int", 3), Toml("bool", 1), Toml("str", 0)}
      Dates == {Toml("str", 0), Toml("datetime", 0), Toml("int", 2024)}
      Has(k, key, v) == IF key \in k THEN v ELSE Toml("missing", 0)
  IN  {[keys |-> k, slope |-> Has(k, "slope", sv), offset |-> Has(k, "offset", ov),
        date |-> Has(k, "date", dv)] :
         k \in KeySets, sv \in Numbers, ov \in Numbers, dv \in Dates}

\* A function of range_calibration was called and raised, or returned.
Called(name, a) == [NoCall EXCEPT !.op = name, !.args = Some(a), !.state = "called"]
RaisedIn(name, a, e) == [Called(name, a) EXCEPT !.state = "raised", !.err = e]
ReturnedFrom(name, a, v) == [Called(name, a) EXCEPT !.state = "returned", !.result = v]

\* Mutant: the slope is stored as soon as it has passed its own check.
load_calibration_stores_slope_early(toml) ==
  /\ rangecal.state # "called"
  /\ IF toml.keys # EXPECTED_FIELDS
       THEN /\ rangecal' = RaisedIn("load_calibration", toml,
                                    "Range calibration file has an invalid set of keys")
            /\ UNCHANGED calibration
       ELSE IF ~IsIntOrFloat(toml.slope)
         THEN /\ rangecal' = RaisedIn("load_calibration", toml,
                                      "slope must be an int or a float.")
              /\ UNCHANGED calibration
         ELSE IF ~IsIntOrFloat(toml.offset)
           THEN /\ rangecal' = RaisedIn("load_calibration", toml,
                                        "offset must be an int or a float.")
                /\ calibration' = [calibration EXCEPT !.slope = Some(toml.slope)]
           ELSE IF toml.date.type # "str"
             THEN /\ rangecal' = RaisedIn("load_calibration", toml,
                                          "date must be a string.")
                  /\ calibration' = [calibration EXCEPT !.slope = Some(toml.slope)]
             ELSE /\ calibration' = [calibration EXCEPT !.slope = Some(toml.slope),
                                        !.offset = Some(toml.offset),
                                        !.date = Some(toml.date)]
                  /\ rangecal' = ReturnedFrom("load_calibration", toml, None)
  /\ UNCHANGED digitizerVars

load_calibration(toml) ==
  /\ rangecal.state # "called"
  /\ IF toml.keys # EXPECTED_FIELDS
       THEN /\ rangecal' = RaisedIn("load_calibration", toml,
                                    "Range calibration file has an invalid set of keys")
            /\ UNCHANGED calibration
       ELSE IF ~IsIntOrFloat(toml.slope)
         THEN /\ rangecal' = RaisedIn("load_calibration", toml,
                                      "slope must be an int or a float.")
              /\ UNCHANGED calibration
         ELSE IF ~IsIntOrFloat(toml.offset)
           THEN /\ rangecal' = RaisedIn("load_calibration", toml,
                                        "offset must be an int or a float.")
                /\ UNCHANGED calibration
           ELSE IF toml.date.type # "str"
             THEN /\ rangecal' = RaisedIn("load_calibration", toml,
                                          "date must be a string.")
                  /\ UNCHANGED calibration
             ELSE /\ calibration' = [calibration EXCEPT !.slope = Some(toml.slope),
                                        !.offset = Some(toml.offset),
                                        !.date = Some(toml.date)]
                  /\ rangecal' = ReturnedFrom("load_calibration", toml, None)
  /\ UNCHANGED digitizerVars

\* _save_calibration(slope, offset, r2, calibration_file): the global
\* dict takes the constants, the fit's r2 and today's date as a string;
\* then the file is written, or cannot be opened.
save_calibration(slope, offset, r2) ==
  /\ rangecal.state # "called"
  /\ calibration' = [slope |-> Some(slope), offset |-> Some(offset),
                      date |-> Some(Toml("str", 0)), r_squared |-> Some(r2)]
  /\ \E written \in BOOLEAN :
       rangecal' = IF written
                     THEN ReturnedFrom("_save_calibration", <<slope, offset, r2>>, None)
                     ELSE RaisedIn("_save_calibration", <<slope, offset, r2>>, "OSError")
  /\ UNCHANGED digitizerVars

\* The range_bins arguments: numpy arrays of bin indices, one of them empty.
RangeBins == {<<>>, <<0>>, <<0, 1, 2>>}

\* Mutant: slope and offset change places.
RangeOf_swapped(slope, offset, range_bins) ==
  [i \in 1..Len(range_bins) |-> offset * range_bins[i] + slope]

\* slope * range_bins + offset, element by element.
RangeOf(slope, offset, range_bins) ==
  [i \in 1..Len(range_bins) |-> slope * range_bins[i] + offset]

\* compute_range(range_bins).  None * range_bins: numpy multiplies element
\* by element, so it raises TypeError at the first element, and gives an
\* empty (object) array for an empty array.
compute_range(range_bins) ==
  /\ rangecal.state # "called"
  /\ IF calibration.slope # None /\ calibration.offset # None
       THEN rangecal' = ReturnedFrom("compute_range", range_bins,
              Some(RangeOf(Val(calibration.slope).num, Val(calibration.offset).num,
                           range_bins)))
       ELSE IF range_bins = <<>>
         THEN rangecal' = ReturnedFrom("compute_range", range_bins, Some(<<>>))
         ELSE rangecal' = RaisedIn("compute_range", range_bins, "TypeError")
  /\ UNCHANGED <<calibration, digitizerVars>>

\* ------------------------------------------------------------ compute_calibration_equation()
\* Bound: the largest number of captures of a calibration run.
MaxCaptures == 3

RECURSIVE FracSum(_)
FracSum(xs) == IF xs = <<>> THEN Frac(0, 1) ELSE FracAdd(xs[1], FracSum(Tail(xs)))

\* Mutant: the range bin of the largest value.
argmin_of_largest(column) ==
  LET best == CHOOSE i \in 1..Len(column) :
                /\ \A j \in 1..Len(column) : column[i] >= column[j]
                /\ \A j \in 1..(i - 1) : column[j] < column[i]
  IN  best - 1

\* np.argmin of one column: the first range bin (from 0) of the smallest value.
argmin(column) ==
  LET best == CHOOSE i \in 1..Len(column) :
                /\ \A j \in 1..Len(column) : column[i] <= column[j]
                /\ \A j \in 1..(i - 1) : column[j] > column[i]
  IN  best - 1

\* Mutant: the mean of the values.
median_mean(xs) ==
  LET RECURSIVE Sum(_)
      Sum(s) == IF s = <<>> THEN 0 ELSE s[1] + Sum(Tail(s))
  IN  Frac(Sum(xs), Len(xs))

\* np.median of a sequence of integers: the middle value in sorted
\* order, or the mean of the two middle values.
median(xs) ==
  LET n == Len(xs)
      kth(k) == CHOOSE v \in {xs[i] : i \in 1..n} :
                  /\ Cardinality({i \in 1..n : xs[i] < v}) < k
                  /\ Cardinality({i \in 1..n : xs[i] <= v}) >= k
  IN  IF n % 2 = 1 THEN Frac(kth((n + 1) \div 2), 1)
      ELSE Frac(kth(n \div 2) + kth(n \div 2 + 1), 2)

\* np.argmin(capture, axis=0): the range bin of the minimum of each
\* segment (column) of one capture.
RECURSIVE argmin_axis0(_)
argmin_axis0(capture) ==
  IF capture = <<>> THEN <<>>
  ELSE <<argmin(capture[1])>> \o argmin_axis0(Tail(capture))

\* target_bin: for each capture the median over its segments of the
\* range bin of the minimum.
RECURSIVE target_bins(_)
target_bins(data) ==
  IF data = <<>> THEN <<>>
  ELSE <<median(argmin_axis0(data[1]))>> \o target_bins(Tail(data))

\* N_CAPTURES * distance.var(): the variance is the mean of the squared
\* deviations from the mean.
total_sum_of_squares(distance) ==
  LET n == Len(distance)
      mean == FracDiv(FracSum([i \in 1..n |-> Frac(distance[i], 1)]), Frac(n, 1))
      dev(i) == FracAdd(Frac(distance[i], 1), Frac(-mean.num, mean.den))
      var == FracDiv(FracSum([i \in 1..n |-> FracMul(dev(i), dev(i))]), Frac(n, 1))
  IN  FracMul(Frac(n, 1), var)

\* np.linalg.lstsq(A, distance) for A = [x, 1]: the least-squares
\* solution (the one of least norm when all x are equal: A has rank 1),
\* and the sum of squared residuals, which is empty (None) when A has
\* rank < 2 or not more than 2 rows.
lstsq(x, distance) ==
  LET m == Len(x)
      y == [i \in 1..m |-> Frac(distance[i], 1)]
      M == Frac(m, 1)
      Neg(f) == Frac(-f.num, f.den)
      Sx == FracSum(x)
      Sy == FracSum(y)
      Sxx == FracSum([i \in 1..m |-> FracMul(x[i], x[i])])
      Sxy == FracSum([i \in 1..m |-> FracMul(x[i], y[i])])
      Syy == FracSum([i \in 1..m |-> FracMul(y[i], y[i])])
      Dxx == FracAdd(FracMul(M, Sxx), Neg(FracMul(Sx, Sx)))
      Dxy == FracAdd(FracMul(M, Sxy), Neg(FracMul(Sx, Sy)))
      Dyy == FracAdd(FracMul(M, Syy), Neg(FracMul(Sy, Sy)))
      full == Dxx.num # 0
      slope == IF full THEN FracDiv(Dxy, Dxx)
               ELSE FracDiv(FracMul(FracDiv(Sy, M), x[1]),
                            FracAdd(FracMul(x[1], x[1]), Frac(1, 1)))
      offset == IF full THEN FracDiv(FracAdd(Sy, Neg(FracMul(slope, Sx))), M)
                ELSE FracDiv(FracDiv(Sy, M), FracAdd(FracMul(x[1], x[1]), Frac(1, 1)))
      rss == FracDiv(FracAdd(Dyy, Neg(FracDiv(FracMul(Dxy, Dxy), Dxx))), M)
  IN  [slope |-> slope, offset |-> offset,
       residuals |-> IF full /\ m > 2 THEN Some(rss) ELSE None]

\* compute_calibration_equation(data, distance) is called.
compute_calibration_equation_call(a) ==
  /\ rangecal.state # "called"
  /\ rangecal' = Called("compute_calibration_equation", a)
  /\ UNCHANGED <<calibration, digitizerVars>>

\* The function is applied to the arguments it was called with; r2 is a
\* number, or not a number (a division by zero), or the empty list.
compute_calibration_equation ==
  /\ rangecal.op = "compute_calibration_equation" /\ rangecal.state = "called"
  /\ LET data == Val(rangecal.args).data
         distance == Val(rangecal.args).distance
         fit == lstsq(target_bins(data), distance)
         tss == total_sum_of_squares(distance)
         r2 == IF fit.residuals = None THEN [kind |-> "empty", v |-> Frac(0, 1)]
               ELSE IF tss.num = 0 THEN [kind |-> "nan", v |-> Frac(0, 1)]
               ELSE [kind |-> "number",
                     v |-> FracAdd(Frac(1, 1),
                                   Frac(-FracDiv(Val(fit.residuals), tss).num,
                                        FracDiv(Val(fit.residuals), tss).den))]
     IN  rangecal' = [rangecal EXCEPT !.state = "returned",
                        !.warned = (fit.residuals = None),
                        !.result = Some([slope |-> fit.slope, offset |-> fit.offset,
                                         r2 |-> r2])]
  /\ UNCHANGED <<calibration, digitizerVars>>

\* The calibration captures: two segments of three range bins each.  The
\* target return (-10) is at bin 0, 1 or 2 in both segments, or at bins
\* 0 and 1 of one segment and at bin 1 of the other (the median of the
\* bins 0 and 1 lies between them).
CalibrationCaptures ==
  {<<<<-10, 0, 0>>, <<-10, 0, 0>>>>, <<<<0, -10, 0>>, <<0, -10, 0>>>>,
   <<<<0, 0, -10>>, <<0, 0, -10>>>>, <<<<-10, -10, 0>>, <<0, -10, 0>>>>}

\* Bound: the largest number of segments of a capture with outliers.
MaxColumns == 3

\* Captures of up to MaxColumns segments of three range bins, each bin
\* with the target return (-10) or without (0).
OutlierCaptures ==
  UNION {[1..n -> [1..3 -> {-10, 0}]] : n \in 1..MaxColumns}

\* The arguments of a call with n captures: the captures and one
\* measured distance for each.
FitArguments(n) ==
  {[data |-> d, distance |-> y] :
     d \in [1..n -> CalibrationCaptures], y \in [1..n -> {0, 1, 2}]}

Step(s) ==
  \/ initialize_Initialize(s)
  \/ initialize_GetSystem(s)
  \/ initialize_GetSystemInfo(s)
  \/ free(s)
  \/ \E config \in ConfigFiles : load_configuration(s, config)
  \/ \E i \in 1..3 : set_config_none(s, ConfigSections[i])
  \/ configure_SetAcquisitionConfig(s)
  \/ configure_SetChannelConfig(s)
  \/ configure_SetTriggerConfig(s)
  \/ configure_Commit(s)
  \/ capture_StartCapture(s)
  \/ capture_GetStatus(s)
  \/ transfer_data_from_adc(s)
  \/ transfer_timestamps_TransferData(s)
  \/ transfer_timestamps_GetTimeStampFrequency(s)

\* One session (one caller thread) and the hardware.
Next ==
  \/ Step("s1")
  \/ HwComplete

Spec == Init /\ [][Next]_vars

\* ------------------------------------------------------------ claims
\* Sequences of driver calls.
Fns(log) == [i \in 1..Len(log) |-> log[i].fn]
IsPrefix(p, q) == Len(p) <= Len(q) /\ \A i \in 1..Len(p) : p[i] = q[i]
HardwareErrors ==
  {"Failed to initialize digitizer", "Failed to get ownership of digitizer",
   "Failed to get digitizer info", "Error setting acquisition config",
   "Error setting channel config", "Error setting trigger config",
   "Error committing settings to hardware", "Error starting capture",
   "Error getting digitizer status", "Error transferring data",
   "Error transferring timestamps"}

\* C1: after configure() has returned, the acquisition parameters the
\* driver stores equal the session's AcquisitionConfig, its Depth equals
\* SegmentSize, the parameters stored for the configured channel equal
\* the ChannelConfig without Channel, and those of trigger engine 1 equal
\* the TriggerConfig.
C1_ConfigureReadback ==
  \A s \in Sessions :
    (op[s] = "configure" /\ outcome[s].state = "returned") =>
      LET a == Val(acquisition_config[s])
          c == Val(channel_config[s])
          g == Val(trigger_config[s])
      IN  /\ drv.acq # None
          /\ Val(drv.acq).SampleRate = a.SampleRate
          /\ Val(drv.acq).SegmentCount = a.SegmentCount
          /\ Val(drv.acq).SegmentSize = a.SegmentSize
          /\ Val(drv.acq).TriggerDelay = a.TriggerDelay
          /\ Val(drv.acq).Mode = a.Mode
          /\ Val(drv.acq).Depth = a.SegmentSize
          /\ drv.chan[c.Channel] = Some([InputRange |-> c.InputRange, DcOffset |-> c.DcOffset])
          /\ drv.trig[1] = Some([Condition |-> g.Condition, Level |-> g.Level,
                                 Source |-> g.Source])

\* configure() returned for the second example configuration (channel 2,
\* trigger source channel 1) after the driver held the first one.
C1_Witness ==
  /\ op["s1"] = "configure" /\ outcome["s1"].state = "returned"
  /\ Val(channel_config["s1"]).Channel = 2
  /\ Val(trigger_config["s1"]).Source = 1
  /\ drv.chan[1] # None
  /\ Val(acquisition_config["s1"]).SegmentSize # Val(acquisition_config["s1"]).SegmentCount

\* C2: configure() with a config section that is None raises, the error
\* names exactly the sections that are None, and no driver call is made.
C2_EmptyConfigRefused ==
  \A s \in Sessions :
    LET none == {n \in {"acquisition", "channel", "trigger"} :
                   \/ n = "acquisition" /\ acquisition_config[s] = None
                   \/ n = "channel" /\ channel_config[s] = None
                   \/ n = "trigger" /\ trigger_config[s] = None}
    IN  (op[s] = "configure" /\ none # {}) =>
          /\ pc[s] = "idle"
          /\ outcome[s].state = "raised"
          /\ outcome[s].err = "Refusing to configure the digitizer"
          /\ outcome[s].missing = none
          /\ calls[s] = <<>>

\* configure() was refused with two of the three sections empty.
C2_Witness ==
  /\ op["s1"] = "configure" /\ outcome["s1"].state = "raised"
  /\ outcome["s1"].missing = {"channel", "trigger"}
  /\ acquisition_config["s1"] # None

\* C3: the driver calls of configure() are a prefix of SetAcquisitionConfig,
\* SetChannelConfig, SetTriggerConfig (engine 1 only), Commit; every call
\* but the last returned a non-negative status; a negative status is the
\* last call and configure() raised a hardware error; configure() returns
\* only after all four succeeded.
C3_ConfigureOrder ==
  \A s \in Sessions :
    op[s] = "configure" =>
      LET log == calls[s]
      IN  /\ IsPrefix(Fns(log), <<"SetAcquisitionConfig", "SetChannelConfig",
                                  "SetTriggerConfig", "Commit">>)
          /\ \A i \in 1..Len(log) :
               log[i].ret < 0 =>
                 /\ i = Len(log)
                 /\ pc[s] = "idle"
                 /\ outcome[s].state = "raised"
                 /\ outcome[s].err \in HardwareErrors
          /\ outcome[s].state = "returned" =>
               Len(log) = 4 /\ \A i \in 1..4 : log[i].ret >= 0
          /\ (pc[s] = "idle" /\ log # <<>> /\ log[Len(log)].ret >= 0) =>
               outcome[s].state = "returned"
          /\ drv.trig[2] = None

\* configure() stopped at a refused SetTriggerConfig: three calls, no Commit.
C3_Witness ==
  /\ op["s1"] = "configure" /\ outcome["s1"].state = "raised"
  /\ Len(calls["s1"]) = 3
  /\ calls["s1"][3].fn = "SetTriggerConfig" /\ calls["s1"][3].ret < 0
  /\ calls["s1"][2].ret >= 0

\* C7: initialize() calls Initialize, GetSystem, GetSystemInfo in this
\* order; a negative Initialize status ends it there with a hardware
\* error, so does a negative GetSystem answer, and a GetSystemInfo answer
\* that is no dict raises too; it returns only after all three succeeded,
\* with the handle GetSystem answered, which owns the device, and the
\* system_info dict.
C7_InitializeErrors ==
  \A s \in Sessions :
    op[s] = "initialize" =>
      LET log == calls[s]
      IN  /\ IsPrefix(Fns(log), <<"Initialize", "GetSystem", "GetSystemInfo">>)
          /\ \A i \in 1..Len(log) :
               log[i].ret < 0 =>
                 /\ i = Len(log)
                 /\ pc[s] = "idle"
                 /\ outcome[s].state = "raised"
                 /\ outcome[s].err \in HardwareErrors
          /\ (Len(log) = 3 /\ system_info[s] # Some(SystemInfoDict)) =>
               outcome[s].state = "raised"
          /\ outcome[s].state = "returned" =>
               /\ Len(log) = 3
               /\ \A i \in 1..3 : log[i].ret >= 0
               /\ digitizer_handle[s] = Some(log[2].ret)
               /\ owner = digitizer_handle[s]
               /\ system_info[s] = Some(SystemInfoDict)
          /\ (pc[s] = "idle" /\ Len(log) = 3 /\ log[3].ret >= 0) =>
               outcome[s].state = "returned"

\* initialize() returned with a claimed handle and the dict.
C7_Witness ==
  /\ op["s1"] = "initialize" /\ outcome["s1"].state = "returned"
  /\ digitizer_handle["s1"] = Some(2)
  /\ system_info["s1"] = Some(SystemInfoDict)


\* The session holds a handle: a value GetSystem answered on a
\* successful claim (a non-negative int).
HoldsHandle(h) == h # None /\ Val(h) >= 0

\* C4, a held handle: free() makes exactly one FreeSystem call with it;
\* on success the handle becomes None; on a negative status a warning is
\* emitted and the handle stays.
C4_HeldHandleReleased ==
  \A s \in Sessions :
    (op[s] = "free" /\ HoldsHandle(freeRun[s][Len(freeRun[s]) - 1])) =>
      LET before == freeRun[s][Len(freeRun[s]) - 1]
      IN  /\ outcome[s].state = "returned"
          /\ Len(calls[s]) = 1
          /\ calls[s][1].fn = "FreeSystem" /\ calls[s][1].h = before
          /\ calls[s][1].ret >= 0 => digitizer_handle[s] = None
          /\ calls[s][1].ret < 0 =>
               /\ outcome[s].warns # {}
               /\ digitizer_handle[s] = before

\* C4, no handle held: free() makes no driver call, warns, does not raise.
C4_NoHandleNoCall ==
  \A s \in Sessions :
    (op[s] = "free" /\ ~HoldsHandle(freeRun[s][Len(freeRun[s]) - 1])) =>
      /\ outcome[s].state = "returned"
      /\ outcome[s].warns # {}
      /\ calls[s] = <<>>

\* C4: free() releases a held handle with exactly one FreeSystem call
\* (success: handle None; negative status: warning, handle unchanged),
\* and without a held handle it makes no driver call, warns and returns.
C4_FreeReleases == C4_HeldHandleReleased /\ C4_NoHandleNoCall

\* C5 as claimed: after the first and after the second of two free()
\* calls in a row on a session that held a handle, the handle is None,
\* and neither call raised.
C5_DoubleFreeClears ==
  \A s \in Sessions :
    (op[s] = "free" /\ Len(freeRun[s]) = 3 /\ HoldsHandle(freeRun[s][1])) =>
      /\ outcome[s].state = "returned"
      /\ freeRun[s][2] = None
      /\ freeRun[s][3] = None

\* C5 as amended: no free() call raises; a call on a handle makes one
\* FreeSystem call and leaves the handle None when the driver accepts the
\* release and unchanged (with a warning) when it refuses; a call when
\* the handle is None makes no driver call and leaves it None; so after
\* two calls in a row the handle is None once a release was accepted and
\* stays None.
C5_DoubleFreeAmended ==
  \A s \in Sessions :
    op[s] = "free" =>
      LET n == Len(freeRun[s])
          before == freeRun[s][n - 1]
          after == freeRun[s][n]
      IN  /\ outcome[s].state = "returned"
          /\ after = digitizer_handle[s]
          /\ before = None => (after = None /\ calls[s] = <<>>)
          /\ before # None =>
               /\ Len(calls[s]) = 1
               /\ calls[s][1].ret >= 0 => after = None
               /\ calls[s][1].ret < 0 =>
                    after = before /\ "Failed to free system" \in outcome[s].warns
          /\ (n = 3 /\ freeRun[s][2] = None) => after = None

\* Two free() calls in a row on a held handle: the driver refused the
\* first release and accepted the second.
C5_Witness ==
  /\ op["s1"] = "free"
  /\ freeRun["s1"] = <<Some(1), Some(1), None>>
  /\ calls["s1"][1].ret >= 0

\* capture() is out of order when the session has no handle (never
\* initialized, or freed) or a config section was never set.
OutOfOrder(s) ==
  \/ digitizer_handle[s] = None
  \/ acquisition_config[s] = None
  \/ channel_config[s] = None
  \/ trigger_config[s] = None

\* C6: capture() out of order makes no driver call and fails with an
\* error that is no hardware error.
C6_CaptureOutOfOrder ==
  \A s \in Sessions :
    (op[s] = "capture" /\ OutOfOrder(s)) =>
      /\ calls[s] = <<>>
      /\ pc[s] = "idle"
      /\ outcome[s].state = "raised"
      /\ outcome[s].err \notin HardwareErrors

\* C10: in initialize(), configure() and capture() a driver call that
\* reported failure is the last call of the method, and the method raised
\* (it returned no result).
C10_NoRetry ==
  \A s \in Sessions :
    op[s] \in {"initialize", "configure", "capture"} =>
      \A i \in 1..Len(calls[s]) :
        calls[s][i].ret < 0 =>
          /\ i = Len(calls[s])
          /\ pc[s] = "idle"
          /\ outcome[s].state = "raised"

\* ------------------------------------------------------------ liveness
\* The caller's thread keeps running the poll loop, and the hardware
\* finishes (or faults) the acquisition it was armed for.
LiveSpec ==
  /\ Init /\ [][Next]_vars
  /\ WF_vars(capture_GetStatus("s1"))
  /\ WF_vars(HwComplete)

\* Only the caller's thread is fair: the hardware may stay busy for ever.
CallerLiveSpec ==
  /\ Init /\ [][Next]_vars
  /\ WF_vars(capture_GetStatus("s1"))

\* A capture() that polls leaves the poll loop.  (Violated under
\* CallerLiveSpec: against a driver that answers busy for ever the loop
\* spins for ever.)
PollEnds == (pc["s1"] = "GetStatus") ~> (pc["s1"] # "GetStatus")

\* The poll loop is left only on an answer that is READY or negative.
PollLeavesOnlyWhenAnswered ==
  \A s \in Sessions :
    (pc[s] = "GetStatus" /\ pc'[s] # "GetStatus") =>
      (status'[s] = ACQ_STATUS_READY \/ status'[s] < 0)

\* C9: a capture() that polls leaves the poll loop once the driver
\* answers READY or a negative status, and leaves it only then: there is
\* no other exit (no iteration bound, no timeout).
C9_PollTerminates == PollEnds /\ [][PollLeavesOnlyWhenAnswered]_vars

\* capture() polled a busy status at least MaxPollLog - 1 times and then
\* left the loop on READY.
C9_Witness ==
  /\ op["s1"] = "capture" /\ pc["s1"] = "TransferData"
  /\ Len(calls["s1"]) = MaxPollLog + 1
  /\ calls["s1"][MaxPollLog].ret = ACQ_STATUS_BUSY
  /\ calls["s1"][MaxPollLog + 1].ret = ACQ_STATUS_READY

\* ------------------------------------------------------------ two sessions
\* Two sessions (two owners of a Digitizer object) use the one device;
\* their initialize() and free() calls interleave driver call by driver call.
SharedStep(s) ==
  \/ initialize_Initialize(s)
  \/ initialize_GetSystem(s)
  \/ initialize_GetSystemInfo(s)
  \/ free(s)

NextShared == \E s \in Sessions : SharedStep(s)

SpecShared == Init /\ [][NextShared]_vars

\* A session holds a live handle: the handle that owns the device.
Live(s) == HoldsHandle(digitizer_handle[s]) /\ digitizer_handle[s] = owner

AtMostOneLive == Cardinality({s \in Sessions : Live(s)}) <= 1

\* A GetSystem call of session s that fails raises, and leaves the
\* device's ownership and the owning session's handle as they were.
FailedClaimKeepsOwner ==
  \A s \in Sessions :
    (pc[s] = "GetSystem" /\ pc'[s] = "idle") =>
      /\ outcome'[s].state = "raised"
      /\ owner' = owner
      /\ \A o \in Sessions : Live(o) => digitizer_handle'[o] = digitizer_handle[o]

\* C8: at most one session holds a live handle, and a failed claim
\* changes neither the owning session's handle nor the ownership.
C8_ExclusiveOwnership == []AtMostOneLive /\ [][FailedClaimKeepsOwner]_vars
\* ------------------------------------------------------------ timestamps
\* C11: a capture() that returns with SegmentCount >= 1 returns
\* SegmentCount timestamps, the first is 0, and element i is
\* round(counts[i]/f*1e9) - round(counts[0]/f*1e9) for the raw counts and
\* the frequency f the driver answered.
C11_TimestampsFromZero ==
  [][\A s \in Sessions :
       (pc[s] = "GetTimeStampFrequency" /\ outcome'[s].state = "returned") =>
         LET c == Val(counts[s])
             f == calls'[s][Len(calls'[s])].ret
             ts == Val(result'[s]).timestamps
         IN  /\ Val(acquisition_config[s]).SegmentCount >= 1
             /\ Len(ts) = Val(acquisition_config[s]).SegmentCount
             /\ ts[1] = 0
             /\ \A i \in 1..Len(ts) :
                  ts[i] = np_round(c[i] * NANOSECONDS_PER_SECOND, f)
                            - np_round(c[1] * NANOSECONDS_PER_SECOND, f)]_vars

\* capture() returned the timestamps of the raw counts 1, 2 at 3 counts
\* per second: the counter did not start at 0 and both counts are rounded.
C11_Witness ==
  /\ op["s1"] = "capture" /\ outcome["s1"].state = "returned"
  /\ Val(result["s1"]).timestamps = <<0, 333333334>>

\* ------------------------------------------------------------ voltages
\* A session that claims the device, loads configurations and converts
\* raw data, with the driver's answers to each call.
StepVolts(s) ==
  \/ initialize_Initialize(s)
  \/ initialize_GetSystem(s)
  \/ initialize_GetSystemInfo(s)
  \/ free(s)
  \/ \E config \in ConfigFiles : load_configuration(s, config)
  \/ \E raw_data \in RawData : convert_to_volts(s, raw_data)

NextVolts == StepVolts("s1")

SpecVolts == Init /\ [][NextVolts]_vars

\* C12: convert_to_volts raises a hardware error when the driver answers
\* a status code; when it returns, element i of the result v satisfies
\* v[i] = (sample_offset - r[i]) / sample_resolution * ((InputRange/1000)/2)
\* + DcOffset/1000 for the driver's sample_offset and sample_resolution
\* (as an equation of fractions), and an element equal to sample_offset
\* gives exactly DcOffset/1000.
C12_VoltsLinear ==
  \A s \in Sessions :
    op[s] = "convert_to_volts" =>
      /\ Len(calls[s]) = 1 /\ calls[s][1].fn = "GetAcquisitionConfig"
      /\ calls[s][1].ret < 0 =>
           (outcome[s].state = "raised"
              /\ outcome[s].err = "Error getting acquisition config")
      /\ outcome[s].state = "returned" =>
           LET r == Val(args[s])
               so == Val(result[s]).sample_offset
               sr == Val(result[s]).sample_resolution
               v == Val(result[s]).voltage_data
               cfg == Val(channel_config[s])
           IN  /\ calls[s][1].ret >= 0
               /\ Len(v) = Len(r)
               /\ \A i \in 1..Len(r) :
                    /\ v[i].den > 0
                    /\ v[i].num * (2000 * sr)
                         = v[i].den * ((so - r[i]) * cfg.InputRange + 2 * cfg.DcOffset * sr)
                    /\ r[i] = so =>
                         (v[i].num * 1000 = v[i].den * cfg.DcOffset
                            /\ (cfg.DcOffset = 0 => v[i].num = 0))

\* The second example configuration (range 1000 mV, DC offset 100 mV),
\* sample offset -1, resolution -8: code -1 gives 1/10 V, code 1 gives 9/40 V.
C12_Witness ==
  /\ op["s1"] = "convert_to_volts" /\ outcome["s1"].state = "returned"
  /\ Val(args["s1"]) = <<-1, 1>>
  /\ Val(result["s1"]).sample_offset = -1
  /\ Val(result["s1"]).voltage_data = <<[num |-> 1, den |-> 10], [num |-> 9, den |-> 40]>>

\* ------------------------------------------------------------ configuration files
\* A session loads configuration files whose trigger sections differ, and
\* its owner may clear a section in between.
StepConfig(s) ==
  \/ \E config \in TriggerFiles : load_configuration(s, config)
  \/ \E config \in ModeFiles : load_configuration(s, config)
  \/ \E i \in 1..3 : set_config_none(s, ConfigSections[i])

NextConfig == StepConfig("s1")

SpecConfig == Init /\ [][NextConfig]_vars

\* The spellings of the trigger words, in any letter case.
ExternalWords == {"external", "External", "EXTERNAL"}
RisingWords == {"rising", "r", "positive", "p", "Rising", "RISING", "R", "Positive", "P"}
FallingWords == {"falling", "f", "negative", "n", "Falling", "F", "NEGATIVE", "N"}

\* The file's trigger source is one load_configuration accepts.
SourceAccepted(src) == ~src.isStr \/ src.s \in ExternalWords

\* C13: load_configuration of a file with an accepted source gives the
\* condition words rising, r, positive, p (any letter case) the value of
\* the integer rising-edge code, the words falling, f, negative, n the
\* value of the integer falling-edge code, stores an integer condition
\* unchanged, and raises on every other string.
C13_ConditionWords ==
  \A s \in Sessions :
    op[s] = "load_configuration" =>
      LET c == Val(args[s]).trigger.condition
          ok == SourceAccepted(Val(args[s]).trigger.source)
      IN  /\ (ok /\ c.isStr /\ c.s \in RisingWords) =>
               (outcome[s].state = "returned"
                  /\ Val(trigger_config[s]).Condition = CS_TRIG_COND_POS_SLOPE)
          /\ (ok /\ c.isStr /\ c.s \in FallingWords) =>
               (outcome[s].state = "returned"
                  /\ Val(trigger_config[s]).Condition = CS_TRIG_COND_NEG_SLOPE)
          /\ (ok /\ ~c.isStr) =>
               (outcome[s].state = "returned"
                  /\ Val(trigger_config[s]).Condition = c.i)
          /\ (c.isStr /\ c.s \notin RisingWords \cup FallingWords) =>
               outcome[s].state = "raised"
          /\ (ok /\ c.isStr /\ c.s \notin RisingWords \cup FallingWords) =>
               outcome[s].err = "Invalid trigger condition setting"

\* The file with condition "P" and an integer source was loaded: a rising edge.
C13_Witness ==
  /\ op["s1"] = "load_configuration" /\ outcome["s1"].state = "returned"
  /\ Val(args["s1"]).trigger.condition = Str("P")
  /\ Val(args["s1"]).trigger.source = Num(2)
  /\ Val(trigger_config["s1"]).Condition = CS_TRIG_COND_POS_SLOPE

\* The outcome of a load by the file's trigger source.
SourceOutcome ==
  \A s \in Sessions :
    op[s] = "load_configuration" =>
      LET src == Val(args[s]).trigger.source
          c == Val(args[s]).trigger.condition
      IN  /\ (SourceAccepted(src)
                /\ (c.isStr => c.s \in RisingWords \cup FallingWords)) =>
               outcome[s].state = "returned"
          /\ (src.isStr /\ src.s \notin ExternalWords) =>
               (outcome[s].state = "raised"
                  /\ outcome[s].err = "Invalid trigger source setting")
          /\ outcome[s].state = "returned" =>
               Val(trigger_config[s]).Source =
                 (IF src.isStr THEN CS_TRIG_SOURCE_EXT ELSE src.i)
          /\ outcome[s].state = "raised" =>
               outcome[s].err \in {"Invalid trigger source setting",
                                   "Invalid trigger condition setting"}

\* A load that raises leaves the trigger configuration as it was.
RefusedLoadKeepsTrigger ==
  \A s \in Sessions :
    (op'[s] = "load_configuration" /\ outcome'[s].state = "raised"
       /\ <<op[s], args[s], outcome[s]>> # <<op'[s], args'[s], outcome'[s]>>) =>
      trigger_config'[s] = trigger_config[s]

\* C14: load_configuration accepts the source "external" (any letter
\* case, stored as the external-trigger code) and an integer (stored as
\* given); every other string raises the source error and no trigger
\* configuration is made of the file.
C14_SourceAccepted == []SourceOutcome /\ [][RefusedLoadKeepsTrigger]_vars

\* A file with source "Internal" was refused after a file had been
\* loaded: the trigger configuration is still that of the earlier file.
C14_Witness ==
  /\ op["s1"] = "load_configuration" /\ outcome["s1"].state = "raised"
  /\ Val(args["s1"]).trigger.source = Str("Internal")
  /\ trigger_config["s1"] # None
  /\ Val(trigger_config["s1"]).Source = CS_TRIG_SOURCE_EXT

\* ------------------------------------------------------------ calibration files
\* A process that loads calibration files, saves calibration constants
\* and converts range bins, in any order.
NextCal ==
  \/ \E toml \in CalibrationFiles : load_calibration(toml)
  \/ \E slope \in {Toml("float", 2)}, offset \in {Toml("int", 1), Toml("float", -1)} :
       save_calibration(slope, offset, Toml("float", 1))
  \/ \E range_bins \in RangeBins : compute_range(range_bins)
  \/ \E a \in FitArguments(1) : compute_calibration_equation_call(a)
  \/ compute_calibration_equation

SpecCal == Init /\ [][NextCal]_vars

\* A calibration file passes the checks of the schema: exactly the four
\* keys, slope and offset TOML numbers (integer or float), date a string.
PassesChecks(toml) ==
  /\ toml.keys = {"slope", "offset", "date", "r-squared"}
  /\ toml.slope.type \in {"int", "float"}
  /\ toml.offset.type \in {"int", "float"}
  /\ toml.date.type = "str"

\* C15: load_calibration raises for every file that does not pass the
\* checks (wrong key set, slope or offset no number, date no string) and
\* returns only for files that pass them all.
C15_CalibrationFileChecked ==
  rangecal.op = "load_calibration" =>
    /\ ~PassesChecks(Val(rangecal.args)) => rangecal.state = "raised"
    /\ PassesChecks(Val(rangecal.args)) => rangecal.state = "returned"

\* C15 without the files whose slope or offset is a TOML boolean: these
\* are checked as claimed.
C15_NoBooleans ==
  (rangecal.op = "load_calibration"
     /\ "bool" \notin {Val(rangecal.args).slope.type, Val(rangecal.args).offset.type}) =>
    /\ ~PassesChecks(Val(rangecal.args)) => rangecal.state = "raised"
    /\ PassesChecks(Val(rangecal.args)) =>
         (rangecal.state = "returned"
            /\ calibration.slope = Some(Val(rangecal.args).slope)
            /\ calibration.offset = Some(Val(rangecal.args).offset)
            /\ calibration.date = Some(Val(rangecal.args).date))

\* C16: compute_range called while slope and offset are unset raises and
\* returns no distance.
C16_NoModelNoRange ==
  (rangecal.op = "compute_range"
     /\ calibration.slope = None /\ calibration.offset = None) =>
    (rangecal.state = "raised" /\ rangecal.result = None)

\* C16 for range_bins that are not empty.
C16_NonEmptyBins ==
  (rangecal.op = "compute_range" /\ Val(rangecal.args) # <<>>
     /\ calibration.slope = None /\ calibration.offset = None) =>
    (rangecal.state = "raised" /\ rangecal.result = None)

\* ------------------------------------------------------------ calibration fit
\* compute_calibration_equation is called with each of the arguments,
\* and with one capture whose segments differ and the distance 1.
InitFit ==
  /\ InitDigitizer
  /\ calibration = [slope |-> None, offset |-> None, date |-> None, r_squared |-> None]
  /\ \/ \E n \in 1..MaxCaptures : \E a \in FitArguments(n) :
          rangecal = Called("compute_calibration_equation", a)
     \/ \E capture \in OutlierCaptures :
          rangecal = Called("compute_calibration_equation",
                            [data |-> <<capture>>, distance |-> <<1>>])

NextFit == compute_calibration_equation

SpecFit == InitFit /\ [][NextFit]_vars

\* A call of compute_calibration_equation that returned.
FitReturned ==
  rangecal.op = "compute_calibration_equation" /\ rangecal.state = "returned"

\* The sum of squared residuals of the returned line over the target bins.
ResidualSumOfSquares ==
  LET a == Val(rangecal.args)
      r == Val(rangecal.result)
      x == target_bins(a.data)
      e(i) == FracAdd(Frac(a.distance[i], 1),
                      FracAdd(Frac(-FracMul(r.slope, x[i]).num, FracMul(r.slope, x[i]).den),
                              Frac(-r.offset.num, r.offset.den)))
  IN  FracSum([i \in 1..Len(x) |-> FracMul(e(i), e(i))])

\* N * variance(target_distances) = sum of y^2 - (sum of y)^2 / N.
NTimesVariance ==
  LET y == Val(rangecal.args).distance
      n == Len(y)
      Sy == FracSum([i \in 1..n |-> Frac(y[i], 1)])
      Syy == FracSum([i \in 1..n |-> Frac(y[i] * y[i], 1)])
  IN  FracAdd(Syy, Frac(-FracMul(Sy, Sy).num, FracMul(Sy, Sy).den * n))

\* The returned goodness-of-fit is the number 1 - RSS / (N * variance),
\* or not a number when the variance is 0.
RSquaredComputed ==
  LET r2 == Val(rangecal.result).r2
      q == FracDiv(ResidualSumOfSquares, NTimesVariance)
  IN  /\ ~rangecal.warned
      /\ IF NTimesVariance.num = 0 THEN r2.kind = "nan"
         ELSE r2.kind = "number" /\ r2.v = FracAdd(Frac(1, 1), Frac(-q.num, q.den))

\* Slope and offset are returned, the goodness-of-fit is the empty list
\* and a warning was emitted.
RSquaredUnavailable ==
  /\ Val(rangecal.result).r2.kind = "empty"
  /\ rangecal.warned
  /\ Val(rangecal.result).slope.den > 0 /\ Val(rangecal.result).offset.den > 0

\* C17: with N >= 3 captures compute_calibration_equation returns
\* R^2 = 1 - residual_sum_of_squares / (N * variance(target_distances));
\* with fewer than 3 captures it returns slope and offset, reports the
\* goodness-of-fit as unavailable and emits a warning.
C17_RSquared ==
  FitReturned =>
    IF Len(Val(rangecal.args).distance) >= 3
      THEN RSquaredComputed ELSE RSquaredUnavailable

\* The target bins of the captures are not all the same bin.
BinsDiffer ==
  LET x == target_bins(Val(rangecal.args).data)
  IN  \E i, j \in 1..Len(x) : x[i] # x[j]

\* What the code does: R^2 is computed when there are N >= 3 captures
\* whose target bins are not all the same; otherwise it is unavailable.
C17_RSquaredWhenBinsDiffer ==
  FitReturned =>
    IF Len(Val(rangecal.args).distance) >= 3 /\ BinsDiffer
      THEN RSquaredComputed ELSE RSquaredUnavailable

\* Three captures with the target at bins 0, 1, 2 and the distances
\* 0, 2, 1: slope 1/2, offset 1/2, R^2 = 1 - (3/2) / 2 = 1/4.
C17_FitOfThree ==
  /\ FitReturned
  /\ Val(rangecal.args).distance = <<0, 2, 1>>
  /\ Val(rangecal.result) = [slope |-> Frac(1, 2), offset |-> Frac(1, 2),
                             r2 |-> [kind |-> "number", v |-> Frac(1, 4)]]

\* Capture d has its minimum at range bin b (from 0) in every segment.
MinimumAt(d, b) ==
  \A c \in 1..Len(d) :
    /\ b + 1 \in 1..Len(d[c])
    /\ \A j \in 1..Len(d[c]) : j # b + 1 => d[c][b + 1] < d[c][j]

\* Capture i has its minimum at range bin i and target_distances[i] = i
\* (i from 0).
SimpleStack ==
  LET a == Val(rangecal.args)
  IN  \A i \in 1..Len(a.data) :
        MinimumAt(a.data[i], i - 1) /\ a.distance[i] = i - 1

\* The lines distance = a * bin + c through two calibration points at
\* different target bins.
LinesThroughPoints ==
  LET y == Val(rangecal.args).distance
      x == target_bins(Val(rangecal.args).data)
      Neg(f) == Frac(-f.num, f.den)
      a(i, j) == FracDiv(Frac(y[j] - y[i], 1), FracAdd(x[j], Neg(x[i])))
  IN  {[a |-> a(i, j), c |-> FracAdd(Frac(y[i], 1), Neg(FracMul(a(i, j), x[i])))] :
         <<i, j>> \in {p \in (1..Len(x)) \X (1..Len(x)) : x[p[1]] # x[p[2]]}}

\* The lines of slope 0 and of slope 1 through the first calibration point.
LinesThroughFirst ==
  LET y == Val(rangecal.args).distance
      x == target_bins(Val(rangecal.args).data)
  IN  {[a |-> Frac(0, 1), c |-> Frac(y[1], 1)],
       [a |-> Frac(1, 1), c |-> FracAdd(Frac(y[1], 1), Frac(-x[1].num, x[1].den))]}

\* target_distances = a * bin + c holds exactly for the target bins.
Exact(line) ==
  LET y == Val(rangecal.args).distance
      x == target_bins(Val(rangecal.args).data)
  IN  \A i \in 1..Len(x) : Frac(y[i], 1) = FracAdd(FracMul(line.a, x[i]), line.c)

ReturnsLine(line) ==
  Val(rangecal.result).slope = line.a /\ Val(rangecal.result).offset = line.c

\* C18: for a capture stack in which capture i has its minimum at range
\* bin i in every segment and target_distances[i] = i the fit returns
\* slope 1 and offset 0; when target_distances = a * bin + c holds
\* exactly for the target bins, the fit returns slope a and offset c.
C18_ExactFit ==
  FitReturned =>
    /\ SimpleStack => ReturnsLine([a |-> Frac(1, 1), c |-> Frac(0, 1)])
    /\ \A line \in LinesThroughPoints \cup LinesThroughFirst :
         Exact(line) => ReturnsLine(line)

\* C18, amended: the same, for captures whose target bins are not all
\* the same bin (so for at least two captures): a and c are then the
\* slope and offset of the one line through the calibration points.
C18_ExactFitAmended ==
  FitReturned =>
    /\ (SimpleStack /\ Len(Val(rangecal.args).distance) >= 2) =>
         ReturnsLine([a |-> Frac(1, 1), c |-> Frac(0, 1)])
    /\ \A line \in LinesThroughPoints : Exact(line) => ReturnsLine(line)

\* The fit of three captures with the target at bins 0, 1, 2 and the
\* distances 0, 1, 2 returned slope 1, offset 0 and R^2 = 1.
C18_Witness ==
  /\ FitReturned /\ SimpleStack
  /\ Len(Val(rangecal.args).distance) = 3
  /\ Val(rangecal.result) = [slope |-> Frac(1, 1), offset |-> Frac(0, 1),
                             r2 |-> [kind |-> "number", v |-> Frac(1, 1)]]

\* ------------------------------------------------------------ h5 files
\* save_data_in_h5() was entered on a new Digitizer object with each of
\* the arguments.
InitH5 ==
  /\ digitizer_handle = [s \in Sessions |-> None]
  /\ system_info = [s \in Sessions |-> None]
  /\ acquisition_config = [s \in Sessions |-> None]
  /\ channel_config = [s \in Sessions |-> None]
  /\ trigger_config = [s \in Sessions |-> None]
  /\ \E a \in H5Arguments :
       /\ pc = [s \in Sessions |-> IF s = "s1" THEN "save_data_in_h5" ELSE "idle"]
       /\ op = [s \in Sessions |-> IF s = "s1" THEN "save_data_in_h5" ELSE "__init__"]
       /\ outcome = [s \in Sessions |-> IF s = "s1" THEN Running ELSE NoOutcome]
       /\ args = [s \in Sessions |-> IF s = "s1" THEN Some(a) ELSE None]
  /\ calls = [s \in Sessions |-> <<>>]
  /\ status = [s \in Sessions |-> 0]
  /\ segment = [s \in Sessions |-> 0]
  /\ counts = [s \in Sessions |-> None]
  /\ data_matrix = [s \in Sessions |-> <<>>]
  /\ result = [s \in Sessions |-> None]
  /\ freeRun = [s \in Sessions |-> <<>>]
  /\ owner = None
  /\ drv = [acq |-> None, chan |-> [c \in Channels |-> None],
            trig |-> [e \in TriggerEngines |-> None]]
  /\ acq = "ready"
  /\ calibration = [slope |-> None, offset |-> None, date |-> None, r_squared |-> None]
  /\ rangecal = NoCall

\* Arguments as the tests hand them over: one capture with a str
\* capture time, two captures with a distance vector, and two captures
\* with the timestamps and the capture time of one.
H5Examples ==
  {[data |-> <<2, 2>>, timestamps |-> <<2>>,
    capture_time |-> [isStr |-> TRUE, shape |-> <<>>],
    data_is_volts |-> FALSE, distance |-> None],
   [data |-> <<2, 2, 1>>, timestamps |-> <<2, 1>>,
    capture_time |-> [isStr |-> FALSE, shape |-> <<2>>],
    data_is_volts |-> TRUE, distance |-> Some(2)],
   [data |-> <<2, 2, 2>>, timestamps |-> <<1, 2>>,
    capture_time |-> [isStr |-> TRUE, shape |-> <<>>],
    data_is_volts |-> FALSE, distance |-> None]}

\* The session goes on: it claims the device, loads the example
\* configuration and saves again.
StepH5(s) ==
  \/ save_data_in_h5(s)
  \/ initialize_Initialize(s)
  \/ initialize_GetSystem(s)
  \/ initialize_GetSystemInfo(s)
  \/ load_configuration(s, ExampleConfig1)
  \/ \E a \in H5Examples : save_data_in_h5_call(s, a)

NextH5 == StepH5("s1")

SpecH5 == InitH5 /\ [][NextH5]_vars

\* The number of captures an argument stands for: the first dimension,
\* or 1 for a single capture (2-dimensional data, 1-dimensional
\* timestamps, a str capture time).
CapturesOf(a) ==
  [data |-> IF Len(a.data) = 2 THEN 1 ELSE a.data[1],
   timestamps |-> IF Len(a.timestamps) = 1 THEN 1 ELSE a.timestamps[1],
   capture_time |-> IF a.capture_time.isStr THEN 1 ELSE a.capture_time.shape[1]]

\* The shapes of the arguments do not agree.
ShapesDisagree(a) ==
  LET n == CapturesOf(a)
      range_bins == a.data[Len(a.data) - 1]
      segments == a.data[Len(a.data)]
  IN  \/ n.data # n.timestamps
      \/ n.data # n.capture_time
      \/ a.timestamps[Len(a.timestamps)] # segments
      \/ a.distance # None /\ Val(a.distance) # range_bins

\* C19: save_data_in_h5 raises ValueError when, a single capture counted
\* as a first dimension of 1, the first dimensions of data, timestamps
\* and capture_time are not all equal, when the second dimension of
\* timestamps differs from the segment dimension of data, or when a
\* supplied distance vector's length differs from the range-bin
\* dimension of data.
C19_ShapesChecked ==
  \A s \in Sessions :
    (op[s] = "save_data_in_h5" /\ pc[s] = "idle" /\ ShapesDisagree(Val(args[s]))) =>
      /\ outcome[s] = Raised("ValueError")
      /\ result[s] = None

\* Two captures were handed over with the timestamps of one capture and
\* one capture time, as in the test: ValueError.
C19_Witness ==
  /\ op["s1"] = "save_data_in_h5" /\ pc["s1"] = "idle"
  /\ Val(args["s1"]).data = <<2, 2, 2>>
  /\ Val(args["s1"]).timestamps = <<1, 2>>
  /\ Val(args["s1"]).capture_time.isStr
  /\ outcome["s1"] = Raised("ValueError")

\* Arrays whose shapes agree are written to the file of a session that
\* holds system information and a configuration: the call returns.
C19_Saved ==
  /\ op["s1"] = "save_data_in_h5" /\ outcome["s1"].state = "returned"
  /\ Val(result["s1"]).data = <<1, 2, 2>>
  /\ Val(result["s1"]).groups = MetadataGroups

\* ------------------------------------------------------------ order of the hardware calls
\* The place of a driver function in capture()'s order of calls.
CaptureRank(fn) ==
  CASE fn = "StartCapture" -> 1
    [] fn = "GetStatus" -> 2
    [] fn = "TransferData" -> 3
    [] fn = "TransferTimestamps" -> 4
    [] OTHER -> 5

\* The positions of the log at which fn was called.
CallsOf(log, fn) == {i \in 1..Len(log) : log[i].fn = fn}

\* C20: in every execution of capture() the hardware calls occur in the
\* order: one start-capture, then one or more get-status calls, then -
\* only after a get-status call returned READY - the transfers of the
\* segments 1..SegmentCount in order, then exactly one timestamp
\* transfer (an execution that fails stops inside this order); no
\* transfer call is made before a get-status call returned READY, and a
\* result is returned only after the timestamp transfer succeeded.
C20_CaptureCallOrder ==
  \A s \in Sessions :
    op[s] = "capture" =>
      LET log == calls[s]
          data == CallsOf(log, "TransferData")
          stamps == CallsOf(log, "TransferTimestamps")
          n_segments == Val(acquisition_config[s]).SegmentCount
      IN  /\ CallsOf(log, "StartCapture") = {1}
          /\ \A i \in 1..(Len(log) - 1) :
               CaptureRank(log[i].fn) <= CaptureRank(log[i + 1].fn)
          /\ \A i \in data \cup stamps :
               /\ log[2].fn = "GetStatus"
               /\ \E j \in 1..(i - 1) :
                    log[j].fn = "GetStatus" /\ log[j].ret = ACQ_STATUS_READY
          /\ \A i \in data :
               log[i].seg = Cardinality({j \in data : j <= i}) /\ log[i].seg <= n_segments
          /\ Cardinality(stamps) <= 1
          /\ stamps # {} => Cardinality(data) = n_segments
          /\ outcome[s].state = "returned" =>
               \E i \in stamps : log[i].ret >= 0 /\ result[s] # None

\* capture() polled a busy status, then READY, transferred both segments
\* and the timestamps, and returned.
C20_Witness ==
  /\ op["s1"] = "capture" /\ outcome["s1"].state = "returned"
  /\ [i \in 1..Len(calls["s1"]) |-> calls["s1"][i].fn]
       = <<"StartCapture", "GetStatus", "GetStatus", "TransferData", "TransferData",
           "TransferTimestamps", "GetTimeStampFrequency">>
  /\ calls["s1"][2].ret = ACQ_STATUS_BUSY
  /\ calls["s1"][5].seg = 2

\* ------------------------------------------------------------ the raw transfer
\* The TransferData calls of the log in default mode, in the order made.
RawTransferCalls(log) == SelectSeq(log, LAMBDA c : c.fn = "TransferData")

\* The raw transfer of the session's capture() has succeeded: the
\* timestamp transfer is next or running, or capture() has returned.
RawTransferDone(s) ==
  /\ op[s] = "capture"
  /\ \/ pc[s] \in {"TransferTimestamps", "GetTimeStampFrequency"}
     \/ outcome[s].state = "returned"

\* The matrix the raw transfer filled: capture()'s local, or the data
\* capture() returned.
MatrixOf(s) == IF pc[s] = "idle" THEN Val(result[s]).data ELSE data_matrix[s]

\* The calls and the matrix of a raw transfer that succeeded.
RawTransferComplete ==
  \A s \in Sessions :
    RawTransferDone(s) =>
      LET raw == RawTransferCalls(calls[s])
          a == Val(acquisition_config[s])
      IN  /\ Len(raw) = a.SegmentCount
          /\ \A k \in 1..Len(raw) :
               /\ raw[k].seg = k
               /\ raw[k].channel = Val(channel_config[s]).Channel
               /\ raw[k].mode = "TxMODE_DEFAULT"
               /\ raw[k].start = a.TriggerDelay
               /\ raw[k].length = a.SegmentSize
               /\ raw[k].ret >= 0
          /\ Len(MatrixOf(s)) = a.SegmentCount
          /\ \A k \in 1..a.SegmentCount :
               MatrixOf(s)[k] # None /\ Val(MatrixOf(s)[k]).segment = k

\* A transfer-data call that succeeds writes the one column of its
\* segment, which held nothing, and leaves the other columns alone.
ColumnWrittenOnce ==
  \A s \in Sessions :
    (pc[s] = "TransferData" /\ pc'[s] # "idle") =>
      /\ data_matrix[s][segment[s]] = None
      /\ data_matrix'[s][segment[s]] # None
      /\ \A k \in 1..Len(data_matrix[s]) :
           k # segment[s] => data_matrix'[s][k] = data_matrix[s][k]

\* C21: a successful raw transfer issues exactly SegmentCount
\* transfer-data calls, one for each segment 1..SegmentCount in
\* increasing order, each with the configured channel, the default
\* transfer mode, start address TriggerDelay and length SegmentSize, and
\* stores the samples returned for segment k in column k-1 of the
\* matrix, so that every column is written exactly once.
C21_RawTransfer == []RawTransferComplete /\ [][ColumnWrittenOnce]_vars

\* Both segments of a capture were transferred; the driver moved the
\* start address of the second.
C21_Witness ==
  /\ op["s1"] = "capture" /\ pc["s1"] = "TransferTimestamps"
  /\ Len(data_matrix["s1"]) = 2
  /\ Val(data_matrix["s1"][1]).segment = 1
  /\ Val(data_matrix["s1"][2]).segment = 2
  /\ Val(data_matrix["s1"][2]).start # Val(acquisition_config["s1"]).TriggerDelay

\* A transfer-data call that succeeded with another start address or
\* length than requested: the warnings name both values, the samples are
\* stored in the segment's column and the loop goes on.
AdjustedTransferAccepted ==
  \A s \in Sessions :
    (pc[s] = "TransferData" /\ Len(calls'[s]) > Len(calls[s])
       /\ calls'[s][Len(calls'[s])].ret >= 0) =>
      LET a == Val(acquisition_config[s])
          column == data_matrix'[s][segment[s]]
      IN  /\ outcome'[s].state = "running"
          /\ pc'[s] = IF segment[s] < a.SegmentCount
                        THEN "TransferData" ELSE "TransferTimestamps"
          /\ column # None /\ Val(column).segment = segment[s]
          /\ Val(column).start # a.TriggerDelay =>
               ("Actual start address differs from requested: actual="
                  \o ToString(Val(column).start) \o ", requested="
                  \o ToString(a.TriggerDelay)) \in outcome'[s].warns
          /\ Val(column).length # a.SegmentSize =>
               ("Actual transfer length differs from requested: actual="
                  \o ToString(Val(column).length) \o ", requested="
                  \o ToString(a.SegmentSize)) \in outcome'[s].warns
          /\ outcome[s].warns \subseteq outcome'[s].warns

\* A capture() whose later calls succeed returns the matrix and the
\* warnings emitted on the way.
WarnedCaptureReturns ==
  \A s \in Sessions :
    (pc[s] = "GetTimeStampFrequency" /\ Val(counts[s]) # <<>>) =>
      /\ outcome'[s].state = "returned"
      /\ Val(result'[s]).data = data_matrix[s]
      /\ outcome'[s].warns = outcome[s].warns

\* C22: when a raw segment transfer succeeds but the driver reports
\* another start address than TriggerDelay or another length than
\* SegmentSize, the transfer emits a warning naming the expected and the
\* actual value, does not raise, stores the returned samples in the
\* segment's column, continues with the remaining segments, and
\* capture() returns a result.
C22_AlignmentWarning ==
  [][AdjustedTransferAccepted /\ WarnedCaptureReturns]_vars

\* capture() returned a matrix whose first column was transferred from
\* another start address and with another length than requested, with
\* both warnings.
C22_Witness ==
  /\ op["s1"] = "capture" /\ outcome["s1"].state = "returned"
  /\ Val(Val(result["s1"]).data[1]).start # Val(acquisition_config["s1"]).TriggerDelay
  /\ Val(Val(result["s1"]).data[1]).length # Val(acquisition_config["s1"]).SegmentSize
  /\ Cardinality(outcome["s1"].warns) >= 2

\* ------------------------------------------------------------ the timestamp clock
\* C23: when the call that fetches the timestamp clock frequency fails
\* (negative status), capture() fails with a hardware error, and no
\* timestamps computed from the failed value are returned.
C23_FrequencyChecked ==
  \A s \in Sessions :
    (op[s] = "capture" /\ calls[s] # <<>>
       /\ calls[s][Len(calls[s])].fn = "GetTimeStampFrequency"
       /\ calls[s][Len(calls[s])].ret < 0) =>
      /\ outcome[s].state = "raised"
      /\ outcome[s].err \in HardwareErrors
      /\ result[s] = None

\* What the code does: whatever the frequency call answers, capture()
\* returns timestamps computed from the answer (or fails on an empty
\* count vector).
C23_FrequencyUsedAsItComes ==
  \A s \in Sessions :
    (op[s] = "capture" /\ calls[s] # <<>>
       /\ calls[s][Len(calls[s])].fn = "GetTimeStampFrequency") =>
      \/ outcome[s] = Raised("IndexError")
      \/ outcome[s].state = "returned" /\ result[s] # None

\* ------------------------------------------------------------ the target bin
\* The index (from 0) of the minimum sample of a segment: the first
\* range bin that holds the smallest value.
MinimumBin(column) ==
  CHOOSE b \in 0..(Len(column) - 1) :
    /\ \A j \in 1..Len(column) : column[b + 1] <= column[j]
    /\ \A j \in 1..b : column[j] > column[b + 1]

\* The values of xs in increasing order.
RECURSIVE Sorted(_)
Sorted(xs) ==
  IF xs = <<>> THEN <<>>
  ELSE LET i == CHOOSE i \in 1..Len(xs) : \A j \in 1..Len(xs) : xs[i] <= xs[j]
       IN  <<xs[i]>> \o Sorted(SubSeq(xs, 1, i - 1) \o SubSeq(xs, i + 1, Len(xs)))

\* The median over the segments of the index of the minimum sample.
MedianBin(capture) ==
  LET bins == Sorted([c \in 1..Len(capture) |-> MinimumBin(capture[c])])
      n == Len(bins)
  IN  IF n % 2 = 1 THEN Frac(bins[(n + 1) \div 2], 1)
      ELSE Frac(bins[n \div 2] + bins[n \div 2 + 1], 2)

\* The bins that a strict majority of the capture's segments have their
\* minimum at.
MajorityBins(capture) ==
  {b \in 0..(Len(capture[1]) - 1) :
     2 * Cardinality({c \in 1..Len(capture) : MinimumBin(capture[c]) = b})
       > Len(capture)}

\* The fit returned the least-squares line through the points (x[i],
\* distance[i]).
FitUses(x) ==
  LET fit == lstsq(x, Val(rangecal.args).distance)
  IN  /\ Val(rangecal.result).slope = fit.slope
      /\ Val(rangecal.result).offset = fit.offset

\* C24: the target bin of each capture that the fit uses is the median,
\* over the segments, of the index of the minimum sample along the
\* range-bin axis; so if a strict majority of a capture's segments have
\* their minimum at bin b, the target bin is b whatever the other
\* segments hold.
C24_MedianBin ==
  FitReturned =>
    LET data == Val(rangecal.args).data
    IN  /\ FitUses([i \in 1..Len(data) |-> MedianBin(data[i])])
        /\ \A i \in 1..Len(data) : \A b \in MajorityBins(data[i]) :
             /\ MedianBin(data[i]) = Frac(b, 1)
             /\ Len(data) = 1 => FitUses(<<Frac(b, 1)>>)

\* The fit of one capture of three segments: two have the target at
\* bin 2, the outlier has it at bin 0.  With the distance 1 and the
\* target bin 2 the line of least norm has slope 2/5 and offset 1/5.
C24_Witness ==
  /\ FitReturned
  /\ Val(rangecal.args).data = <<<<<<0, 0, -10>>, <<-10, 0, 0>>, <<0, 0, -10>>>>>>
  /\ Val(rangecal.result).slope = Frac(2, 5)
  /\ Val(rangecal.result).offset = Frac(1, 5)

\* ------------------------------------------------------------ the calibration in use
\* The slope and offset a call of load_calibration or _save_calibration
\* was given.
GivenModel(call) ==
  IF call.op = "load_calibration"
    THEN [slope |-> Val(call.args).slope, offset |-> Val(call.args).offset]
    ELSE [slope |-> Val(call.args)[1], offset |-> Val(call.args)[2]]

\* One call: a load or a save that succeeds sets the slope and offset it
\* was given; a fit and a conversion leave them alone; a conversion
\* returns slope * b + offset, element by element, for the slope and
\* offset that are set.
CalibrationFollowsCalls ==
  /\ (rangecal'.op \in {"load_calibration", "_save_calibration"}
        /\ rangecal'.state = "returned") =>
       /\ calibration'.slope = Some(GivenModel(rangecal').slope)
       /\ calibration'.offset = Some(GivenModel(rangecal').offset)
  /\ rangecal'.op \in {"compute_calibration_equation", "compute_range"} =>
       calibration' = calibration
  /\ (rangecal'.op = "compute_range" /\ calibration.slope # None) =>
       LET b == Val(rangecal'.args)
       IN  /\ rangecal'.state = "returned"
           /\ Len(Val(rangecal'.result)) = Len(b)
           /\ \A i \in 1..Len(b) :
                Val(rangecal'.result)[i]
                  = Val(calibration.slope).num * b[i] + Val(calibration.offset).num

\* C25: after any sequence of successful load_calibration and
\* _save_calibration calls compute_range(b) returns slope * b + offset,
\* element by element, for the slope and offset of the most recent such
\* call; a fit with compute_calibration_equation alone does not change
\* the slope and offset that compute_range uses.
C25_LatestModelUsed == [][CalibrationFollowsCalls]_vars

\* A calibration was saved (it has an r-squared), then a file with
\* slope 3 and offset 2 was loaded, and compute_range([0, 1, 2])
\* returned [2, 5, 8].
C25_Witness ==
  /\ rangecal.op = "compute_range" /\ rangecal.state = "returned"
  /\ calibration.r_squared # None
  /\ calibration.slope = Some(Toml("int", 3))
  /\ calibration.offset = Some(Toml("float", 2))
  /\ Val(rangecal.result) = <<2, 5, 8>>

\* ------------------------------------------------------------ the stored handle
\* C26: in every reachable state the session's handle is None or a value
\* a successful GetSystem call returned, never a negative driver status;
\* so free() never passes a status code to FreeSystem.
C26_HandleNeverStatus ==
  \A s \in Sessions :
    /\ digitizer_handle[s] = None \/ Val(digitizer_handle[s]) \in Handles
    /\ \A i \in 1..Len(calls[s]) :
         calls[s][i].fn = "FreeSystem" => Val(calls[s][i].h) \in Handles

\* What the code does: the handle is None or the answer of the latest
\* GetSystem call of the session, a handle or a negative status alike.
C26_HandleIsLatestAnswer ==
  \A s \in Sessions :
    digitizer_handle[s] = None \/ Val(digitizer_handle[s]) \in Handles \cup {CS_ERROR}

\* C27: every handle a successful GetSystem call returned is still stored
\* in a session or has been released with FreeSystem; initialize() on a
\* session that holds a handle does not overwrite it without a release.
C27_NoHandleLost ==
  owner = None \/ \E s \in Sessions : digitizer_handle[s] = owner

\* ------------------------------------------------------------ a refused configuration
\* C28: load_configuration is all-or-nothing: when it raises, the
\* session's acquisition_config, channel_config and trigger_config are
\* what they were before the call.
C28_AllOrNothing ==
  [][\A s \in Sessions :
       (op'[s] = "load_configuration" /\ outcome'[s].state = "raised"
          /\ <<op[s], args[s], outcome[s]>> # <<op'[s], args'[s], outcome'[s]>>) =>
         /\ acquisition_config'[s] = acquisition_config[s]
         /\ channel_config'[s] = channel_config[s]
         /\ trigger_config'[s] = trigger_config[s]]_vars

\* What the code does: a load that raises has replaced the acquisition
\* and channel configurations by those of the refused file and has kept
\* the trigger configuration.
C28_RefusedLoadKeepsTriggerOnly ==
  [][\A s \in Sessions :
       (op'[s] = "load_configuration" /\ outcome'[s].state = "raised"
          /\ <<op[s], args[s], outcome[s]>> # <<op'[s], args'[s], outcome'[s]>>) =>
         /\ acquisition_config'[s] = Some(MakeAcquisitionConfig(Val(args'[s])))
         /\ channel_config'[s] = Some(MakeChannelConfig(Val(args'[s])))
         /\ trigger_config'[s] = trigger_config[s]]_vars

\* ------------------------------------------------------------ the acquisition mode
ModeCodes == {CS_MODE_SINGLE, CS_MODE_DUAL, CS_MODE_QUAD, CS_MODE_OCT}

\* C29: after load_configuration returns, the Mode of acquisition_config
\* is one of the four driver mode codes; a value that is no spelling of a
\* mode is rejected, not stored.
C29_ModeIsACode ==
  \A s \in Sessions :
    (op[s] = "load_configuration" /\ outcome[s].state = "returned") =>
      /\ ~Val(acquisition_config[s]).Mode.isStr
      /\ Val(acquisition_config[s]).Mode.i \in ModeCodes

\* The words of the modes, in the letter cases of the files.
ModeWord(code) ==
  CASE code = CS_MODE_SINGLE -> {"single", "Single"}
    [] code = CS_MODE_DUAL -> {"dual", "Dual"}
    [] code = CS_MODE_QUAD -> {"quad", "QUAD"}
    [] code = CS_MODE_OCT -> {"oct", "Oct"}

\* What the code does: the word and the number of a mode give the same
\* code; every other value is stored as the file has it, a string in
\* lower case, and the load returns.
C29_ModeWordsAndNumbers ==
  \A s \in Sessions :
    (op[s] = "load_configuration" /\ outcome[s].state = "returned") =>
      LET m == Val(args[s]).acquisition.mode
          Mode == Val(acquisition_config[s]).Mode
      IN  /\ \A code \in ModeCodes :
               ((m.isStr /\ m.s \in ModeWord(code)) \/ m = Num(code)) => Mode = Num(code)
          /\ (m.isStr /\ m.s \notin UNION {ModeWord(code) : code \in ModeCodes}) =>
               Mode = Str(Lower(m.s))
          /\ (~m.isStr /\ m.i \notin ModeCodes) => Mode = m

\* ------------------------------------------------------------ a refused calibration file
\* A load_calibration call that raises leaves the calibration as it was.
FailedLoadKeepsCalibration ==
  (rangecal'.op = "load_calibration" /\ rangecal'.state = "raised") =>
    calibration' = calibration

\* A compute_range call that follows a refused load uses the slope and
\* offset that were there before the load.
RangeAfterFailedLoad ==
  (rangecal.op = "load_calibration" /\ rangecal.state = "raised"
     /\ rangecal'.op = "compute_range" /\ calibration.slope # None) =>
    /\ rangecal'.state = "returned"
    /\ Val(rangecal'.result)
         = [i \in 1..Len(Val(rangecal'.args)) |->
              Val(calibration.slope).num * Val(rangecal'.args)[i]
                + Val(calibration.offset).num]

\* C30: a load_calibration call that fails (wrong key set or wrong field
\* type) leaves slope, offset and date as they were before the call, and
\* a later compute_range uses the model loaded or saved before.
C30_FailedLoadChangesNothing ==
  [][FailedLoadKeepsCalibration /\ RangeAfterFailedLoad]_vars

\* A file with slope 3 and a string for its offset was refused while the
\* saved model with slope 2 was in use: the slope is still 2.
C30_Witness ==
  /\ rangecal.op = "load_calibration" /\ rangecal.state = "raised"
  /\ rangecal.err = "offset must be an int or a float."
  /\ Val(rangecal.args).slope = Toml("int", 3)
  /\ calibration.slope = Some(Toml("float", 2))
  /\ calibration.r_squared # None

====
